---- MODULE Spec2Model ----
(***************************************************************************)
(* Service agent monitor of the A2A-Aptos bidding system                   *)
(* (src/bidding_system/service_agent_monitor.py): the polling loop, the    *)
(* checkpoint file, the event feed it queries and the task registry it     *)
(* bids on.  The registry is the Move module bidding_system, which is not  *)
(* among the Python sources; its place_bid contract is taken from the      *)
(* specification (section 4.1 and 4.4).                                    *)
(***************************************************************************)
EXTENDS Integers, Sequences, FiniteSets, TLC

\* ---------------------------------------------------------------- bounds
\* Highest sequence number the feed hands out.
MaxSeq == 2
\* Environment faults (feed errors, network failures, IOErrors) and process
\* kills per behaviour, together.
MaxFaults == 2
\* Process kills among them.
MaxCrashes == 1
\* Events waiting in the feed when the agent of the backlog runs starts: more
\* than one query returns.
MaxBacklog == 27
\* Longest task id given to a standalone script, in characters.
MaxIdLen == 2
\* ------------------------------------------------------ program constants
\* limit: 25 of the GraphQL query.
QueryLimit == 25
\* BID_PRICE_RATIO default 0.8, as the fraction 4/5.
BidRatioNum == 4
BidRatioDen == 5
\* SERVICE_AGENT_REPUTATION default.
ReputationScore == 90
\* MONITOR_POLL_INTERVAL default, the rest after a batch and the wait after an
\* exception, in seconds, and the timeout of the wait_for around each of them.
PollInterval == 30
RestPause == 2
BackoffPause == 10
WaitTimeout == 1

\* Budgets a publisher escrows (smallest currency unit), and the budgets of
\* the pricing runs.
Budgets == {100000000}
PriceBudgets == {90}
\* The smallest budget a publisher can escrow.
SmallBudgets == {1}
\* Values BID_PRICE_RATIO is given in the .env file, as written there; the
\* first is the default.
DefaultRatio == "0.8"
Ratios == {"0.8", "0.7"}
\* Bits of the significand of a double.
SignificandBits == 53
\* The two signals main() registers signal_handler for.
Signals == {"SIGINT", "SIGTERM"}
\* The service agent's own identity on the ledger.
Agent == "service_agent"

VARIABLES
    feed,            \* the indexer's events: set of TaskPublishedEvent records
    registry,        \* task id -> task record (ledger-resident)
    file,            \* content of monitor_state.json
    pc,              \* position of the agent process
    shutdown_event,  \* the global asyncio.Event
    last_seq_num,    \* local of monitor_tasks
    events,          \* the batch the for loop iterates
    idx,             \* index of the for loop's current event
    txn,             \* outcome of the submitted transaction on the ledger
    saveArg,         \* argument of the running save_state call
    saveRet,         \* where the running save_state call returns to
    faults,          \* environment faults so far
    crashes,         \* process kills so far
    observed,        \* this process has seen shutdown_event set
    finalWrites,     \* cursor writes this process completed on its shutdown path
    cycleStart,      \* last_seq_num when the current batch was queried
    lastOutcome,     \* how the last place_bid of this process ended
    retry,           \* event whose place_bid failed and has not been offered again
    saveOld,         \* what the file held when the running save_state opened it
    ioError,         \* the last save_state of this process logged an IOError
    interrupted,     \* the save_state call a kill interrupted, until the next start
    recovering,      \* event confirmed on the ledger when the process was killed before its checkpoint
    config,          \* what the process finds configured: .env and the account profile
    inflight,        \* the submission that was in flight when a signal arrived
    submitted,       \* sequence numbers a place_bid transaction was ever submitted for
    checkpointed,    \* per sequence number: written to the file yet, and the higher
                     \* numbers that had been submitted when it first was
    script           \* the run of a standalone script: its arguments, its position
                     \* and what it has done so far

vars == <<feed, registry, file, pc, shutdown_event, last_seq_num, events, idx, txn,
          saveArg, saveRet, faults, crashes, observed, finalWrites,
          cycleStart, lastOutcome, retry, saveOld, ioError, interrupted, recovering,
          config, inflight, submitted, checkpointed, script>>

\* ------------------------------------------------------------ the file
Absent == [kind |-> "absent", val |-> 0]
Empty == [kind |-> "empty", val |-> 0]
Valid(n) == [kind |-> "valid", val |-> n]

\* Every content the checkpoint file can have: absent, not openable, empty,
\* cut short, not JSON, JSON that is no object, an object without the key, the
\* key with a non-integer value, the key with an integer.
FileKinds ==
    {"absent", "unreadable", "empty", "partial", "notjson", "othershape",
     "nokey", "noninteger", "valid"}

FileStates ==
    {[kind |-> k, val |-> 0] : k \in FileKinds \ {"valid"}}
        \cup {Valid(n) : n \in 0..MaxSeq}

\* No save_state call was interrupted.
NoWrite == [active |-> FALSE, old |-> 0, new |-> 0]

\* load_state: the value returned, or the exception that leaves the function.
load_state(f) ==
    CASE f.kind = "absent" -> [raised |-> FALSE, value |-> 0]
      [] f.kind = "unreadable" -> [raised |-> FALSE, value |-> 0]
      [] f.kind \in {"empty", "partial", "notjson"} -> [raised |-> FALSE, value |-> 0]
      [] f.kind = "othershape" -> [raised |-> TRUE, value |-> 0]
      [] f.kind = "nokey" -> [raised |-> FALSE, value |-> 0]
      [] f.kind = "noninteger" -> [raised |-> TRUE, value |-> 0]
      [] OTHER -> [raised |-> FALSE, value |-> f.val]

\* The cursor a process started now would begin from.
Persisted == load_state(file).value

\* ------------------------------------------------------------ the feed
SeqNums == 1..MaxSeq

Min(S) == CHOOSE m \in S : \A x \in S : m <= x
Max0(S) == IF S = {} THEN 0 ELSE CHOOSE m \in S : \A x \in S : x <= m

\* order_by: { sequence_number: asc }: the i-th element is the event with
\* i - 1 events below it.
Ascending(S) ==
    [i \in 1..Cardinality(S) |->
        CHOOSE e \in S :
            Cardinality({x \in S : x.sequence_number < e.sequence_number}) = i - 1]

Take(s, n) == IF Len(s) <= n THEN s ELSE SubSeq(s, 1, n)

\* The query with _gte in place of _gt.
query_indexer_from(last_processed_seq_num) ==
    Take(Ascending({e \in feed : e.sequence_number >= last_processed_seq_num}), QueryLimit)

\* A query whose limit keeps the newest events instead of the oldest.
query_indexer_newest(last_processed_seq_num) ==
    LET s == Ascending({e \in feed : e.sequence_number > last_processed_seq_num})
    IN IF Len(s) <= QueryLimit THEN s
       ELSE SubSeq(s, Len(s) - QueryLimit + 1, Len(s))
\* The where/order_by/limit of the GraphQL query.
query_indexer_for_new_tasks(last_processed_seq_num) ==
    Take(Ascending({e \in feed : e.sequence_number > last_processed_seq_num}), QueryLimit)

\* ---------------------------------------------------------- the registry
\* The identities that sign registry transactions: the requester who
\* publishes, the service agent, and another provider.
Creator == "personal_agent"
Rival == "other_agent"
Callers == {Creator, Agent, Rival}
\* The address a task without a winner shows.
NoWinner == "0x0"
\* The timestamp of the block a transaction is executed in; 0 is no timestamp.
Timestamp == 1
\* Prices a provider offers: none, one within the budget (the service agent's
\* is its 80%, the other provider's is lower), one above the budget.
BidPrices(bidder) ==
    {0, IF bidder = Agent THEN 80000000 ELSE 50000000, 100000001}

\* A task id the registry does not hold.  escrow is what the registry holds
\* for the task, paid and refunded what it has sent to the winner and back
\* to the creator.
NoTask ==
    [status |-> "NONE", creator |-> NoWinner, max_budget |-> 0, expired |-> FALSE,
     bids |-> <<>>, winner |-> NoWinner, winning_price |-> 0, completed_at |-> 0,
     escrow |-> 0, paid |-> 0, refunded |-> 0]

Applied(task) == [result |-> "ok", task |-> task]
\* A transaction that aborts after it has sent the escrow back.
Rejected_AfterRefund(reason, task) ==
    [result |-> reason, task |-> [task EXCEPT !.refunded = task.escrow, !.escrow = 0]]
Rejected(reason, task) == [result |-> reason, task |-> task]

\* publish: the budget is escrowed and the task is open for bids.
publish_task(task, creator, max_budget, deadline_in_future) ==
    CASE task.status # "NONE" -> Rejected("DuplicateTaskId", task)
      [] max_budget = 0 -> Rejected("InvalidBudget", task)
      [] ~deadline_in_future -> Rejected("InvalidDeadline", task)
      [] OTHER -> Applied([NoTask EXCEPT !.status = "PUBLISHED", !.creator = creator,
                                         !.max_budget = max_budget,
                                         !.escrow = max_budget])

HasBid(task, bidder) == \E i \in 1..Len(task.bids) : task.bids[i].bidder = bidder

BidsOf(task, bidder) == Cardinality({i \in 1..Len(task.bids) : task.bids[i].bidder = bidder})

\* A place_bid that looks at the deadline and the price but not at the status.
registry_place_bid_any_status(task, bidder, price) ==
    CASE task.status = "NONE" -> "TaskNotFound"
      [] task.expired -> "DeadlinePassed"
      [] price = 0 \/ price > task.max_budget -> "InvalidPrice"
      [] HasBid(task, bidder) -> "DuplicateBid"
      [] OTHER -> "ok"
\* place_bid of the registry: "ok" or the reason it rejects with.
registry_place_bid(task, bidder, price) ==
    CASE task.status = "NONE" -> "TaskNotFound"
      [] task.status # "PUBLISHED" -> "TaskNotOpen"
      [] task.expired -> "DeadlinePassed"
      [] price = 0 \/ price > task.max_budget -> "InvalidPrice"
      [] HasBid(task, bidder) -> "DuplicateBid"
      [] OTHER -> "ok"

\* place_bid as a transaction: the bid is appended, or the task is as it was.
place_bid(task, bidder, price, reputation_score) ==
    LET r == registry_place_bid(task, bidder, price)
    IN IF r = "ok"
       THEN Applied([task EXCEPT !.bids = Append(@, [bidder |-> bidder, price |-> price,
                                                     reputation_score |-> reputation_score])])
       ELSE Rejected(r, task)

\* A select_winner that assigns the task at the full budget.
select_winner_full_budget(task, i) ==
    CASE task.status = "NONE" -> Rejected("TaskNotFound", task)
      [] task.status # "PUBLISHED" -> Rejected("TaskNotOpen", task)
      [] task.bids = <<>> -> Rejected("NoBids", task)
      [] OTHER -> Applied([task EXCEPT !.status = "ASSIGNED", !.expired = FALSE,
                                       !.winner = task.bids[i].bidder,
                                       !.winning_price = task.max_budget])
\* select_winner with the bid the contract's policy picks, the i-th.
select_winner(task, i) ==
    CASE task.status = "NONE" -> Rejected("TaskNotFound", task)
      [] task.status # "PUBLISHED" -> Rejected("TaskNotOpen", task)
      [] task.bids = <<>> -> Rejected("NoBids", task)
      [] OTHER -> Applied([task EXCEPT !.status = "ASSIGNED", !.expired = FALSE,
                                       !.winner = task.bids[i].bidder,
                                       !.winning_price = task.bids[i].price])

\* A complete_task that pays the winner and keeps the rest of the escrow.
complete_task_keeps_change(task, caller) ==
    CASE task.status = "NONE" -> Rejected("TaskNotFound", task)
      [] task.status # "ASSIGNED" -> Rejected("NotAssigned", task)
      [] caller # task.winner -> Rejected("NotWinner", task)
      [] OTHER -> Applied([task EXCEPT !.status = "COMPLETED", !.completed_at = Timestamp,
                                       !.paid = task.winning_price,
                                       !.escrow = task.max_budget - task.winning_price])
\* A complete_task that pays the winner whoever signs the transaction.
complete_task_by_anyone(task, caller) ==
    CASE task.status = "NONE" -> Rejected("TaskNotFound", task)
      [] task.status # "ASSIGNED" -> Rejected("NotAssigned", task)
      [] OTHER -> Applied([task EXCEPT !.status = "COMPLETED", !.completed_at = Timestamp,
                                       !.paid = task.winning_price,
                                       !.refunded = task.max_budget - task.winning_price,
                                       !.escrow = 0])

\* complete_task: the winner is paid the winning price, the creator gets
\* the rest of the escrow back.
complete_task(task, caller) ==
    CASE task.status = "NONE" -> Rejected("TaskNotFound", task)
      [] task.status # "ASSIGNED" -> Rejected("NotAssigned", task)
      [] caller # task.winner -> Rejected("NotWinner", task)
      [] OTHER -> Applied([task EXCEPT !.status = "COMPLETED", !.completed_at = Timestamp,
                                       !.paid = task.winning_price,
                                       !.refunded = task.max_budget - task.winning_price,
                                       !.escrow = 0])

\* A cancel_task that also takes an assigned task back.
cancel_task_when_assigned(task, caller) ==
    CASE task.status = "NONE" -> Rejected("TaskNotFound", task)
      [] task.status \notin {"PUBLISHED", "ASSIGNED"} -> Rejected("TaskNotOpen", task)
      [] OTHER -> Applied([task EXCEPT !.status = "CANCELLED", !.expired = FALSE,
                                       !.refunded = task.max_budget, !.escrow = 0])

\* cancel_task: the whole escrow goes back to the creator.
cancel_task(task, caller) ==
    CASE task.status = "NONE" -> Rejected("TaskNotFound", task)
      [] task.status # "PUBLISHED" -> Rejected("TaskNotOpen", task)
      [] OTHER -> Applied([task EXCEPT !.status = "CANCELLED", !.expired = FALSE,
                                       !.refunded = task.max_budget, !.escrow = 0])

\* ------------------------------------------------------------ the agent
\* ------------------------------------------------------ the configuration
\* PLATFORM_ADDRESS as os.getenv returns it ("" stands for unset or empty) and
\* whether load_account_from_profile finds the profile's private key.
Configs ==
    [platform_address : {"", "0xplatform"}, profile_readable : BOOLEAN,
     bid_price_ratio : Ratios]

Configured == [platform_address |-> "0xplatform", profile_readable |-> TRUE,
               bid_price_ratio |-> DefaultRatio]

\* No submission was in flight when the signal arrived.
NoFlight == [seq |-> 0, outcome |-> "none"]

\* The four bits of a hexadecimal digit, most significant first.
HexBits(h) == <<(h \div 8) % 2, (h \div 4) % 2, (h \div 2) % 2, h % 2>>

RECURSIVE BitsOfHex(_)
BitsOfHex(digits) ==
    IF digits = <<>> THEN <<>> ELSE HexBits(Head(digits)) \o BitsOfHex(Tail(digits))

\* float(os.getenv("BID_PRICE_RATIO", 0.8)): the double nearest the decimal,
\* as the 53 bits of its significand, most significant first.  Both ratios
\* lie in [0.5, 1), so the double is significand / 2^53:
\* 0.8 is 0x3FE999999999999A and 0.7 is 0x3FE6666666666666.
float(ratio) ==
    <<1>> \o BitsOfHex(IF ratio = "0.8"
                       THEN <<9, 9, 9, 9, 9, 9, 9, 9, 9, 9, 9, 9, 10>>
                       ELSE <<6, 6, 6, 6, 6, 6, 6, 6, 6, 6, 6, 6, 6>>)

\* x times the significand m, exactly: hi * 2^53 + lo, with lo as 53 bits;
\* carry[k] is what the bits after the k-th carry into it.
Times(x, m) ==
    LET carry[k \in 0..SignificandBits] ==
            IF k = SignificandBits THEN 0
            ELSE (x * m[k + 1] + carry[k + 1]) \div 2
    IN [hi |-> carry[0],
        lo |-> [k \in 1..SignificandBits |-> (x * m[k] + carry[k]) % 2]]

RECURSIVE BitLength(_)
BitLength(n) == IF n = 0 THEN 0 ELSE 1 + BitLength(n \div 2)

\* int(x * f) for an int x below 2^30 and a double f in [0.5, 1): the exact
\* product hi + lo / 2^53 is rounded to 53 significant bits, ties to even,
\* and int() drops the fraction.  The rounded product reaches hi + 1 exactly
\* when every fraction bit it keeps is 1 and the first bit it drops is 1.
int_of_product(x, m) ==
    LET p == Times(x, m)
        keep == SignificandBits - BitLength(p.hi)
    IN IF /\ p.hi > 0
          /\ \A i \in 1..keep : p.lo[i] = 1
          /\ p.lo[keep + 1] = 1
       THEN p.hi + 1
       ELSE p.hi

\* int(max_budget * float(ratio)) for every budget and ratio of the runs,
\* computed once.
Quotes ==
    {[max_budget |-> b, ratio |-> r, price |-> int_of_product(b, float(r))] :
        b \in Budgets \cup PriceBudgets \cup SmallBudgets, r \in Ratios}

\* bid_price = int(max_budget * self.bid_price_ratio)
bid_price(max_budget) ==
    LET quote == CHOOSE q \in Quotes :
                     q.max_budget = max_budget /\ q.ratio = config.bid_price_ratio
    IN quote.price

\* place_bid returning True however the transaction ended.
place_bid_returns_true(outcome) == TRUE

\* What place_bid returns for the way the transaction ended: True only when
\* submit, wait_for_transaction and transaction_by_hash all returned.
place_bid_returns(outcome) == outcome = "confirmed"

\* process_task_event saving the state whatever place_bid returned.
saves_always(success) == TRUE

\* process_task_event: whether save_state(current_seq_num) is called.
saves_after_bid(success) == success

\* Ways the payload of a delivered event can be broken: a member of its data
\* is missing, or a number is not one.
Defects == {"no_task_id", "no_max_budget", "budget_not_a_number", "sequence_not_a_number"}

\* The exception process_task_event runs into while it reads the event, in
\* the order of its reads: int(event["sequence_number"]), task_data["task_id"],
\* int(task_data["max_budget"]); "none" for a well-formed event.
parse_error(event) ==
    IF "defect" \notin DOMAIN event THEN "none"
    ELSE CASE event.defect = "sequence_not_a_number" -> "ValueError"
           [] event.defect = "no_task_id" -> "KeyError"
           [] event.defect = "no_max_budget" -> "KeyError"
           [] event.defect = "budget_not_a_number" -> "ValueError"
\* No standalone script is run.
NoScript == [name |-> "none"]

TypeOK ==
    /\ pc \in {"boot", "loop", "idle_wait", "for", "submitted", "executed", "save_open",
               "save_write", "after_process", "rest", "backoff", "finally", "done",
               "exit1", "killed", "start", "abort"}
    /\ shutdown_event \in BOOLEAN
    /\ last_seq_num \in 0..MaxSeq
    /\ file \in FileStates
    /\ faults \in 0..MaxFaults
    /\ crashes \in 0..MaxCrashes
    /\ config \in Configs
    /\ inflight.seq \in 0..MaxSeq
    /\ submitted \subseteq SeqNums
    /\ checkpointed \in [SeqNums -> [done : BOOLEAN, late : SUBSET SeqNums]]
    /\ \A t \in SeqNums :
           /\ registry[t].status \in {"NONE", "PUBLISHED", "ASSIGNED", "COMPLETED", "CANCELLED"}
           /\ registry[t].winner \in Callers \cup {NoWinner}
           /\ registry[t].completed_at \in {0, Timestamp}

\* Nothing published and a process with no memory.
AgentNotStarted ==
    /\ feed = {}
    /\ registry = [t \in SeqNums |-> NoTask]
    /\ pc = "start"
    /\ shutdown_event = FALSE
    /\ last_seq_num = 0
    /\ events = <<>>
    /\ idx = 0
    /\ txn = "none"
    /\ saveArg = 0
    /\ saveRet = "none"
    /\ faults = 0
    /\ crashes = 0
    /\ observed = FALSE
    /\ finalWrites = 0
    /\ cycleStart = 0
    /\ lastOutcome = "none"
    /\ retry = 0
    /\ saveOld = 0
    /\ ioError = FALSE
    /\ interrupted = NoWrite
    /\ recovering = 0
    /\ inflight = NoFlight
    /\ submitted = {}
    /\ checkpointed = [n \in SeqNums |-> [done |-> FALSE, late |-> {}]]

\* The state at the start of main(), the checkpoint file and the configuration
\* aside: nothing published, no memory, no script run.
InitState ==
    /\ AgentNotStarted
    /\ script = NoScript

\* A first start with a complete configuration and no checkpoint file.
Init ==
    /\ file = Absent
    /\ config = Configured
    /\ InitState

\* ------------------------------------------------------- the environment
PublishedSeqs == {e.sequence_number : e \in feed}

\* A requester publishes a task: the registry records it and the feed gets its
\* TaskPublishedEvent under the next sequence number (numbers may be skipped).
Publish(n, b) ==
    /\ n > Max0(PublishedSeqs)
    /\ registry[n].status = "NONE"
    /\ feed' = feed \cup {[sequence_number |-> n, task_id |-> n, max_budget |-> b]}
    /\ registry' = [registry EXCEPT ![n] = publish_task(@, Creator, b, TRUE).task]
    /\ UNCHANGED <<file, pc, shutdown_event, last_seq_num, events, idx, txn, saveArg,
                   saveRet, faults, crashes, observed, finalWrites, cycleStart,
                   lastOutcome, retry, saveOld, ioError, interrupted, recovering,
                   config, inflight, submitted, checkpointed, script>>

\* A task is published and the feed delivers its event with a broken payload.
PublishMalformed(n, b, d) ==
    /\ n > Max0(PublishedSeqs)
    /\ registry[n].status = "NONE"
    /\ feed' = feed \cup {[sequence_number |-> n, task_id |-> n, max_budget |-> b,
                           defect |-> d]}
    /\ registry' = [registry EXCEPT ![n] = publish_task(@, Creator, b, TRUE).task]
    /\ UNCHANGED <<file, pc, shutdown_event, last_seq_num, events, idx, txn, saveArg,
                   saveRet, faults, crashes, observed, finalWrites, cycleStart,
                   lastOutcome, retry, saveOld, ioError, interrupted, recovering,
                   config, inflight, submitted, checkpointed, script>>
\* The creator cancels an open task.
CancelTask(t) ==
    /\ registry[t].status = "PUBLISHED"
    /\ registry' = [registry EXCEPT ![t] = cancel_task(@, Creator).task]
    /\ UNCHANGED <<feed, file, pc, shutdown_event, last_seq_num, events, idx, txn,
                   saveArg, saveRet, faults, crashes, observed, finalWrites,
                   cycleStart, lastOutcome, retry, saveOld, ioError, interrupted, recovering,
                   config, inflight, submitted, checkpointed, script>>

\* The creator has the registry pick a winner among the bids.
SelectWinner(t) ==
    /\ registry[t].status = "PUBLISHED"
    /\ registry[t].bids # <<>>
    /\ \E i \in 1..Len(registry[t].bids) :
           registry' = [registry EXCEPT ![t] = select_winner(@, i).task]
    /\ UNCHANGED <<feed, file, pc, shutdown_event, last_seq_num, events, idx, txn,
                   saveArg, saveRet, faults, crashes, observed, finalWrites,
                   cycleStart, lastOutcome, retry, saveOld, ioError, interrupted, recovering,
                   config, inflight, submitted, checkpointed, script>>

\* The deadline of an open task passes.
DeadlinePasses(t) ==
    /\ registry[t].status = "PUBLISHED"
    /\ ~registry[t].expired
    /\ registry' = [registry EXCEPT ![t].expired = TRUE]
    /\ UNCHANGED <<feed, file, pc, shutdown_event, last_seq_num, events, idx, txn,
                   saveArg, saveRet, faults, crashes, observed, finalWrites,
                   cycleStart, lastOutcome, retry, saveOld, ioError, interrupted, recovering,
                   config, inflight, submitted, checkpointed, script>>

\* The process runs: it has not ended (monitor_tasks returned; sys.exit(1) in
\* main or in __init__) and has not been killed.
Alive == pc \notin {"done", "exit1", "abort", "killed"}

\* A signal handler that cancels the running submission and ends the loop.
Signal_Cancels(signum) ==
    /\ Alive
    /\ ~shutdown_event
    /\ shutdown_event' = TRUE
    /\ inflight' = IF pc \in {"submitted", "executed"}
                   THEN [seq |-> events[idx].sequence_number, outcome |-> "pending"]
                   ELSE inflight
    /\ pc' = IF pc \in {"submitted", "executed"} THEN "finally" ELSE pc
    /\ txn' = IF pc \in {"submitted", "executed"} THEN "none" ELSE txn
    /\ UNCHANGED <<feed, registry, file, last_seq_num, events, idx, saveArg,
                   saveRet, faults, crashes, observed, finalWrites, cycleStart,
                   lastOutcome, retry, saveOld, ioError, interrupted, recovering,
                   config, submitted, checkpointed, script>>

\* main() registering signal_handler for SIGTERM only: SIGINT ends the process
\* where it is.
Signal_InterruptKills(signum) ==
    /\ Alive
    /\ ~shutdown_event
    /\ IF signum = "SIGINT"
       THEN /\ pc' = "killed"
            /\ UNCHANGED <<shutdown_event, inflight>>
       ELSE /\ shutdown_event' = TRUE
            /\ inflight' = IF pc \in {"submitted", "executed"}
                           THEN [seq |-> events[idx].sequence_number, outcome |-> "pending"]
                           ELSE inflight
            /\ UNCHANGED pc
    /\ UNCHANGED <<feed, registry, file, last_seq_num, events, idx, txn, saveArg,
                   saveRet, faults, crashes, observed, finalWrites, cycleStart,
                   lastOutcome, retry, saveOld, ioError, interrupted, recovering,
                   config, submitted, checkpointed, script>>

\* signal_handler: SIGINT and SIGTERM both set the event; the coroutine that
\* is awaiting a submission is not touched.
Signal(signum) ==
    /\ Alive
    /\ ~shutdown_event
    /\ shutdown_event' = TRUE
    /\ inflight' = IF pc \in {"submitted", "executed"}
                   THEN [seq |-> events[idx].sequence_number, outcome |-> "pending"]
                   ELSE inflight
    /\ UNCHANGED <<feed, registry, file, pc, last_seq_num, events, idx, txn, saveArg,
                   saveRet, faults, crashes, observed, finalWrites, cycleStart,
                   lastOutcome, retry, saveOld, ioError, interrupted, recovering,
                   config, submitted, checkpointed, script>>

\* ------------------------------------------------------ the agent's steps
\* __init__ accepting every PLATFORM_ADDRESS.
address_never_missing(platform_address) == FALSE

\* if not self.platform_address
address_missing(platform_address) == platform_address = ""

\* monitor = ServiceAgentMonitor(): __init__ reads the configuration and ends
\* the process with sys.exit(1) when PLATFORM_ADDRESS is missing.
Construct ==
    /\ pc = "start"
    /\ pc' = IF address_missing(config.platform_address) THEN "abort" ELSE "boot"
    /\ UNCHANGED <<feed, registry, file, shutdown_event, last_seq_num, events, idx, txn,
                   saveArg, saveRet, faults, crashes, observed, finalWrites, cycleStart,
                   lastOutcome, retry, saveOld, ioError, interrupted, recovering,
                   config, inflight, submitted, checkpointed, script>>

\* monitor_tasks, line 221: an exception of load_state leaves monitor_tasks
\* before its try block and main() exits with status 1.
LoadState ==
    /\ pc = "boot"
    /\ interrupted' = NoWrite
    /\ LET r == load_state(file)
       IN IF r.raised
          THEN /\ pc' = "exit1"
               /\ UNCHANGED last_seq_num
          ELSE /\ pc' = "loop"
               /\ last_seq_num' = r.value
    /\ UNCHANGED <<feed, registry, file, shutdown_event, events, idx, txn, saveArg,
                   saveRet, faults, crashes, observed, finalWrites, cycleStart,
                   lastOutcome, retry, saveOld, ioError, recovering,
                   config, inflight, submitted, checkpointed, script>>

\* while not shutdown_event.is_set(): the event is set, the loop ends.
LoopExit ==
    /\ pc = "loop"
    /\ shutdown_event
    /\ observed' = TRUE
    /\ pc' = "finally"
    /\ UNCHANGED <<feed, registry, file, shutdown_event, last_seq_num, events, idx, txn,
                   saveArg, saveRet, faults, crashes, finalWrites, cycleStart,
                   lastOutcome, retry, saveOld, ioError, interrupted, recovering,
                   config, inflight, submitted, checkpointed, script>>

\* A loop that takes an empty result for the end of the stream.
Batch_EmptyEndsStream(result) ==
    /\ events' = result
    /\ cycleStart' = last_seq_num
    /\ IF result = <<>>
       THEN /\ pc' = "finally"
            /\ idx' = 0
       ELSE /\ pc' = "for"
            /\ idx' = 1

\* The batch a query hands to the loop: empty -> the idle wait, else the for loop.
Batch(result) ==
    /\ events' = result
    /\ cycleStart' = last_seq_num
    /\ IF result = <<>>
       THEN /\ pc' = "idle_wait"
            /\ idx' = 0
       ELSE /\ pc' = "for"
            /\ idx' = 1

\* events = self.query_indexer_for_new_tasks(last_seq_num)
Poll ==
    /\ pc = "loop"
    /\ ~shutdown_event
    /\ Batch(query_indexer_for_new_tasks(last_seq_num))
    /\ UNCHANGED <<feed, registry, file, shutdown_event, last_seq_num, txn, saveArg,
                   saveRet, faults, crashes, observed, finalWrites, lastOutcome, retry, saveOld, ioError, interrupted, recovering,
                   config, inflight, submitted, checkpointed, script>>

\* A query failure that ends the process.
PollFails_Exits ==
    /\ pc = "loop"
    /\ ~shutdown_event
    /\ faults + crashes < MaxFaults
    /\ faults' = faults + 1
    /\ pc' = "exit1"
    /\ UNCHANGED <<feed, registry, file, shutdown_event, last_seq_num, events, idx, txn,
                   saveArg, saveRet, crashes, observed, finalWrites, cycleStart,
                   lastOutcome, retry, saveOld, ioError, interrupted, recovering,
                   config, inflight, submitted, checkpointed, script>>

\* The query fails inside query_indexer_for_new_tasks (RequestException,
\* JSONDecodeError, GraphQL errors): it returns [].
PollFails ==
    /\ pc = "loop"
    /\ ~shutdown_event
    /\ faults + crashes < MaxFaults
    /\ faults' = faults + 1
    /\ Batch(<<>>)
    /\ UNCHANGED <<feed, registry, file, shutdown_event, last_seq_num, txn, saveArg,
                   saveRet, crashes, observed, finalWrites, lastOutcome,
                   retry, saveOld, ioError, interrupted, recovering,
                   config, inflight, submitted, checkpointed, script>>

\* Any other exception of the query reaches the loop's except Exception.
PollRaises ==
    /\ pc = "loop"
    /\ ~shutdown_event
    /\ faults + crashes < MaxFaults
    /\ faults' = faults + 1
    /\ pc' = "backoff"
    /\ UNCHANGED <<feed, registry, file, shutdown_event, last_seq_num, events, idx, txn,
                   saveArg, saveRet, crashes, observed, finalWrites, cycleStart,
                   lastOutcome, retry, saveOld, ioError, interrupted, recovering,
                   config, inflight, submitted, checkpointed, script>>

\* The sleep each waiting position asks for.
Sleep(position) ==
    CASE position = "idle_wait" -> PollInterval
      [] position = "rest" -> RestPause
      [] OTHER -> BackoffPause

\* Seconds asyncio.wait_for(asyncio.sleep(n), timeout=1.0) takes: the sleep
\* ends it, or the timeout does.
WaitFor(position) == Min({Sleep(position), WaitTimeout})

\* asyncio.wait_for(asyncio.sleep(...), timeout=1.0) times out; continue.
WaitTimesOut ==
    /\ pc \in {"idle_wait", "rest", "backoff"}
    /\ pc' = "loop"
    /\ events' = <<>>
    /\ idx' = 0
    /\ cycleStart' = 0
    /\ lastOutcome' = "none"
    /\ UNCHANGED <<feed, registry, file, shutdown_event, last_seq_num, txn, saveArg,
                   saveRet, faults, crashes, observed, finalWrites, retry, saveOld, ioError, interrupted, recovering,
                   config, inflight, submitted, checkpointed, script>>

\* for event in events: the batch is exhausted.
ForDone ==
    /\ pc = "for"
    /\ idx > Len(events)
    /\ pc' = "rest"
    /\ UNCHANGED <<feed, registry, file, shutdown_event, last_seq_num, events, idx, txn,
                   saveArg, saveRet, faults, crashes, observed, finalWrites, cycleStart,
                   lastOutcome, retry, saveOld, ioError, interrupted, recovering,
                   config, inflight, submitted, checkpointed, script>>

\* if shutdown_event.is_set(): self.save_state(last_seq_num); return
\* (the batch and the other locals of the loop are not used again).
ForShutdown ==
    /\ pc = "for"
    /\ idx <= Len(events)
    /\ shutdown_event
    /\ observed' = TRUE
    /\ saveArg' = last_seq_num
    /\ saveRet' = "return"
    /\ pc' = "save_open"
    /\ events' = <<>>
    /\ idx' = 0
    /\ cycleStart' = 0
    /\ lastOutcome' = "none"
    /\ retry' = 0
    /\ UNCHANGED <<feed, registry, file, shutdown_event, last_seq_num, txn,
                   faults, crashes, finalWrites, saveOld, ioError, interrupted,
                   recovering, config, inflight, submitted, checkpointed, script>>

\* The ledger executes the pending place_bid: it records the bid or rejects.
LedgerExecute ==
    /\ pc = "submitted"
    /\ LET e == events[idx]
           price == bid_price(e.max_budget)
           r == registry_place_bid(registry[e.task_id], Agent, price)
       IN IF r = "ok"
          THEN /\ registry' = [registry EXCEPT ![e.task_id].bids =
                                   Append(@, [bidder |-> Agent, price |-> price,
                                              reputation_score |-> ReputationScore])]
               /\ txn' = "confirmed"
          ELSE /\ txn' = r
               /\ UNCHANGED registry
    /\ pc' = "executed"
    /\ UNCHANGED <<feed, file, shutdown_event, last_seq_num, events, idx, saveArg,
                   saveRet, faults, crashes, observed, finalWrites, cycleStart,
                   lastOutcome, retry, saveOld, ioError, interrupted, recovering,
                   config, inflight, submitted, checkpointed, script>>

\* A for loop that goes on after a failed event as after a successful one.
AfterPlaceBid_Continues(outcome) ==
    /\ lastOutcome' = outcome
    /\ txn' = "none"
    /\ inflight' = IF inflight.seq # 0 THEN [inflight EXCEPT !.outcome = outcome]
                   ELSE inflight
    /\ saveArg' = events[idx].sequence_number
    /\ saveRet' = "after_process"
    /\ pc' = "save_open"
    /\ UNCHANGED retry

\* What process_task_event and the for loop do once place_bid has ended with
\* `outcome`: save_state(current_seq_num) after a success, else return False
\* and break.
AfterPlaceBid(outcome) ==
    /\ lastOutcome' = outcome
    /\ txn' = "none"
    /\ inflight' = IF inflight.seq # 0 THEN [inflight EXCEPT !.outcome = outcome]
                   ELSE inflight
    /\ IF saves_after_bid(place_bid_returns(outcome))
       THEN /\ saveArg' = events[idx].sequence_number
            /\ saveRet' = "after_process"
            /\ pc' = "save_open"
            /\ UNCHANGED retry
       ELSE /\ pc' = "rest"
            /\ retry' = events[idx].sequence_number
            /\ UNCHANGED <<saveArg, saveRet>>

\* A loop that starts the submissions of a whole batch together instead of
\* awaiting each before the next.
BidSubmit_Gathered ==
    /\ pc = "for"
    /\ idx <= Len(events)
    /\ ~shutdown_event
    /\ txn' = "pending"
    /\ retry' = 0
    /\ idx' = Len(events)
    /\ submitted' = submitted \cup {events[i].sequence_number : i \in idx..Len(events)}
    /\ pc' = "submitted"
    /\ UNCHANGED <<feed, registry, file, shutdown_event, last_seq_num, events,
                   saveArg, saveRet, lastOutcome, inflight,
                   faults, crashes, observed, finalWrites, cycleStart,
                   saveOld, ioError, interrupted, recovering, config, checkpointed, script>>
\* process_task_event up to submit_bcs_transaction: the transaction is
\* pending; or get_client_and_account raises for an unreadable profile and
\* place_bid returns False.
BidSubmit ==
    /\ pc = "for"
    /\ idx <= Len(events)
    /\ ~shutdown_event
    /\ parse_error(events[idx]) = "none"
    /\ IF config.profile_readable
       THEN /\ txn' = "pending"
            /\ retry' = 0
            /\ submitted' = submitted \cup {events[idx].sequence_number}
            /\ pc' = "submitted"
            /\ UNCHANGED <<saveArg, saveRet, lastOutcome, inflight>>
       ELSE /\ AfterPlaceBid("credentials")
            /\ UNCHANGED submitted
    /\ UNCHANGED <<feed, registry, file, shutdown_event, last_seq_num, events, idx,
                   faults, crashes, observed, finalWrites, cycleStart,
                   saveOld, ioError, interrupted, recovering, config, checkpointed, script>>

\* wait_for_transaction and transaction_by_hash return, or wait_for_transaction
\* raises for a transaction the ledger rejected.
BidReturn ==
    /\ pc = "executed"
    /\ AfterPlaceBid(txn)
    /\ UNCHANGED <<feed, registry, file, shutdown_event, last_seq_num, events, idx,
                   faults, crashes, observed, finalWrites, cycleStart,
                   saveOld, ioError, interrupted, recovering, config, submitted, checkpointed, script>>

\* A process_task_event that gives up on an event it cannot read and lets
\* the loop go on behind it.
ProcessRaises_Skips ==
    /\ pc = "for"
    /\ idx <= Len(events)
    /\ ~shutdown_event
    /\ parse_error(events[idx]) # "none"
    /\ lastOutcome' = parse_error(events[idx])
    /\ last_seq_num' = events[idx].sequence_number
    /\ idx' = idx + 1
    /\ UNCHANGED <<feed, registry, file, pc, shutdown_event, events, txn,
                   saveArg, saveRet, faults, crashes, observed, finalWrites,
                   cycleStart, retry, saveOld, ioError, interrupted, recovering,
                   config, inflight, submitted, checkpointed, script>>

\* process_task_event raises while it reads the event: except Exception
\* returns False and the for loop breaks.
ProcessRaises ==
    /\ pc = "for"
    /\ idx <= Len(events)
    /\ ~shutdown_event
    /\ parse_error(events[idx]) # "none"
    /\ lastOutcome' = parse_error(events[idx])
    /\ retry' = events[idx].sequence_number
    /\ pc' = "rest"
    /\ UNCHANGED <<feed, registry, file, shutdown_event, last_seq_num, events, idx, txn,
                   saveArg, saveRet, faults, crashes, observed, finalWrites,
                   cycleStart, saveOld, ioError, interrupted, recovering,
                   config, inflight, submitted, checkpointed, script>>
\* A network failure or timeout in place_bid: before the transaction is
\* submitted, or while waiting for its confirmation (the ledger has executed
\* it, or it has dropped it and never will).
BidTransientFailure ==
    /\ \/ /\ pc = "for"
          /\ idx <= Len(events)
          /\ ~shutdown_event
          /\ parse_error(events[idx]) = "none"
       \/ pc = "submitted"
       \/ pc = "executed"
    /\ faults + crashes < MaxFaults
    /\ faults' = faults + 1
    /\ AfterPlaceBid("transient")
    /\ UNCHANGED <<feed, registry, file, shutdown_event, last_seq_num, events, idx,
                   crashes, observed, finalWrites, cycleStart, saveOld, ioError,
                   interrupted, recovering, config, submitted, checkpointed, script>>

\* A loop that takes the numbering as contiguous and steps its cursor by one.
SaveReturns_Increments ==
    /\ saveArg' = 0
    /\ saveRet' = "none"
    /\ saveOld' = 0
    /\ CASE saveRet = "after_process" ->
               /\ last_seq_num' = last_seq_num + 1
               /\ idx' = idx + 1
               /\ pc' = "for"
         [] saveRet = "return" ->
               /\ pc' = "finally"
               /\ UNCHANGED <<last_seq_num, idx>>
         [] OTHER ->
               /\ pc' = "done"
               /\ UNCHANGED <<last_seq_num, idx>>

\* A loop whose cursor in memory follows the file: it stays where it was when
\* save_state logged an IOError.
SaveReturns_FollowsFile ==
    /\ saveArg' = 0
    /\ saveRet' = "none"
    /\ saveOld' = 0
    /\ CASE saveRet = "after_process" ->
               /\ last_seq_num' = IF ioError' THEN last_seq_num
                                  ELSE events[idx].sequence_number
               /\ idx' = idx + 1
               /\ pc' = "for"
         [] saveRet = "return" ->
               /\ pc' = "finally"
               /\ UNCHANGED <<last_seq_num, idx>>
         [] OTHER ->
               /\ pc' = "done"
               /\ UNCHANGED <<last_seq_num, idx>>
\* save_state returns to its caller: process_task_event (which returns True, so
\* the loop sets last_seq_num and goes on), the return in the for loop (which
\* runs the finally block), or the finally block (monitor_tasks ends).
SaveReturns ==
    /\ saveArg' = 0
    /\ saveRet' = "none"
    /\ saveOld' = 0
    /\ CASE saveRet = "after_process" ->
               /\ last_seq_num' = events[idx].sequence_number
               /\ idx' = idx + 1
               /\ pc' = "for"
         [] saveRet = "return" ->
               /\ pc' = "finally"
               /\ UNCHANGED <<last_seq_num, idx>>
         [] OTHER ->
               /\ pc' = "done"
               /\ UNCHANGED <<last_seq_num, idx>>

\* with open(self.state_file, "w"): the file is truncated.
SaveOpen ==
    /\ pc = "save_open"
    /\ file.kind # "unreadable"
    /\ saveOld' = Persisted
    /\ file' = Empty
    /\ pc' = "save_write"
    /\ UNCHANGED <<feed, registry, shutdown_event, last_seq_num, events, idx, txn, saveArg,
                   saveRet, faults, crashes, observed, finalWrites, cycleStart,
                   lastOutcome, retry, ioError, interrupted, recovering,
                   config, inflight, submitted, checkpointed, script>>

\* open raises IOError: logged, the file is as it was.
SaveOpenFails ==
    /\ pc = "save_open"
    /\ \/ /\ file.kind = "unreadable"
          /\ UNCHANGED faults
       \/ /\ file.kind # "unreadable"
          /\ faults + crashes < MaxFaults
          /\ faults' = faults + 1
    /\ ioError' = TRUE
    /\ SaveReturns
    /\ UNCHANGED <<feed, registry, file, shutdown_event, events, txn, crashes, observed,
                   finalWrites, cycleStart, lastOutcome, retry, interrupted, recovering,
                   config, inflight, submitted, checkpointed, script>>

\* json.dump(state, f) and the close of the file.
SaveWrite ==
    /\ pc = "save_write"
    /\ file' = Valid(saveArg)
    /\ ioError' = FALSE
    /\ finalWrites' = IF saveRet \in {"return", "done"} THEN finalWrites + 1 ELSE finalWrites
    /\ checkpointed' =
           IF saveArg \in SeqNums /\ ~checkpointed[saveArg].done
           THEN [checkpointed EXCEPT ![saveArg] =
                    [done |-> TRUE, late |-> {b \in submitted : b > saveArg}]]
           ELSE checkpointed
    /\ SaveReturns
    /\ UNCHANGED <<feed, registry, shutdown_event, events, txn, faults, crashes, observed,
                   cycleStart, lastOutcome, retry, interrupted, recovering,
                   config, inflight, submitted, script>>

\* The write raises IOError (disk full): logged, the file stays truncated.
SaveWriteFails ==
    /\ pc = "save_write"
    /\ faults + crashes < MaxFaults
    /\ faults' = faults + 1
    /\ ioError' = TRUE
    /\ SaveReturns
    /\ UNCHANGED <<feed, registry, file, shutdown_event, events, txn, crashes, observed,
                   finalWrites, cycleStart, lastOutcome, retry, interrupted, recovering,
                   config, inflight, submitted, checkpointed, script>>

\* The finally block without its save_state call.
Finally_SkipsSave ==
    /\ pc = "finally"
    /\ pc' = "done"
    /\ UNCHANGED <<feed, registry, file, shutdown_event, last_seq_num, events, idx, txn,
                   saveArg, saveRet, faults, crashes, observed, finalWrites, cycleStart,
                   lastOutcome, retry, saveOld, ioError, interrupted, recovering,
                   config, inflight, submitted, checkpointed, script>>

\* finally: self.save_state(last_seq_num)
Finally ==
    /\ pc = "finally"
    /\ saveArg' = last_seq_num
    /\ saveRet' = "done"
    /\ pc' = "save_open"
    /\ UNCHANGED <<feed, registry, file, shutdown_event, last_seq_num, events, idx, txn,
                   faults, crashes, observed, finalWrites, cycleStart, lastOutcome, retry,
                   saveOld, ioError, interrupted, recovering,
                   config, inflight, submitted, checkpointed, script>>

\* The bid of the current event is on the ledger and its checkpoint is not
\* yet being written.
ConfirmedUnsaved ==
    \/ pc = "executed" /\ txn = "confirmed"
    \/ pc = "save_open" /\ saveRet = "after_process"

\* The memory of a process that does not run.
FreshMemory ==
    /\ shutdown_event' = FALSE
    /\ last_seq_num' = 0
    /\ events' = <<>>
    /\ idx' = 0
    /\ txn' = "none"
    /\ saveArg' = 0
    /\ saveRet' = "none"
    /\ observed' = FALSE
    /\ finalWrites' = 0
    /\ cycleStart' = 0
    /\ lastOutcome' = "none"
    /\ retry' = 0
    /\ saveOld' = 0
    /\ ioError' = FALSE
    /\ inflight' = NoFlight

\* The process is killed (SIGKILL, power loss) wherever it is; a file it had
\* opened for writing stays truncated.
Crash ==
    /\ Alive
    /\ pc \notin {"start", "boot"}
    /\ crashes < MaxCrashes
    /\ faults + crashes < MaxFaults
    /\ crashes' = crashes + 1
    /\ recovering' = IF ConfirmedUnsaved THEN events[idx].sequence_number ELSE recovering
    /\ interrupted' = IF pc = "save_open"
                      THEN [active |-> TRUE, old |-> Persisted, new |-> saveArg]
                      ELSE IF pc = "save_write"
                           THEN [active |-> TRUE, old |-> saveOld, new |-> saveArg]
                           ELSE interrupted
    /\ pc' = "killed"
    /\ FreshMemory
    /\ UNCHANGED <<feed, registry, file, faults, config, submitted, checkpointed, script>>

\* The service is started again: a new process.
Restart ==
    /\ ~Alive
    /\ pc' = "start"
    /\ FreshMemory
    /\ UNCHANGED <<feed, registry, file, faults, crashes, interrupted, recovering,
                   config, submitted, checkpointed, script>>

Next ==
    \/ \E n \in SeqNums, b \in Budgets : Publish(n, b)
    \/ \E t \in SeqNums : CancelTask(t)
    \/ \E t \in SeqNums : SelectWinner(t)
    \/ \E t \in SeqNums : DeadlinePasses(t)
    \/ \E signum \in Signals : Signal(signum)
    \/ Construct
    \/ LoadState
    \/ LoopExit
    \/ Poll
    \/ PollFails
    \/ PollRaises
    \/ WaitTimesOut
    \/ ForDone
    \/ ForShutdown
    \/ BidSubmit
    \/ LedgerExecute
    \/ BidReturn
    \/ BidTransientFailure
    \/ SaveOpen
    \/ SaveOpenFails
    \/ SaveWrite
    \/ SaveWriteFails
    \/ Finally
    \/ Crash
    \/ Restart

Spec == Init /\ [][Next]_vars

\* The same program started on any content of the checkpoint file.
InitAnyFile ==
    /\ file \in FileStates
    /\ config = Configured
    /\ InitState

\* The same program started with or without PLATFORM_ADDRESS in its .env.
InitAnyAddress ==
    /\ file = Absent
    /\ config \in {c \in Configs : c.profile_readable /\ c.bid_price_ratio = DefaultRatio}
    /\ InitState

\* The same program started with a readable or an unreadable account profile.
InitAnyProfile ==
    /\ file = Absent
    /\ config \in {c \in Configs : c.platform_address # "" /\ c.bid_price_ratio = DefaultRatio}
    /\ InitState

SpecLoad == InitAnyFile /\ [][Next]_vars

\* The indexer answers with an event the agent has already acted on (the feed
\* delivers at least once): query_indexer_for_new_tasks returns what the
\* response holds, and the loop processes what it returns.
PollRedelivers ==
    /\ pc = "loop"
    /\ ~shutdown_event
    /\ faults + crashes < MaxFaults
    /\ faults' = faults + 1
    /\ \E e \in feed :
           /\ e.sequence_number <= last_seq_num
           /\ Batch(<<e>>)
    /\ UNCHANGED <<feed, registry, file, shutdown_event, last_seq_num, txn, saveArg,
                   saveRet, crashes, observed, finalWrites, lastOutcome,
                   retry, saveOld, ioError, interrupted, recovering,
                   config, inflight, submitted, checkpointed, script>>

NextRedeliver == Next \/ PollRedelivers

\* The program against a feed that also delivers events with a broken
\* payload, with a ledger and a disk that do not fail.
NextMalformed ==
    \/ \E n \in SeqNums, b \in Budgets : Publish(n, b)
    \/ \E n \in SeqNums, b \in Budgets, d \in Defects : PublishMalformed(n, b, d)
    \/ \E signum \in Signals : Signal(signum)
    \/ Construct
    \/ LoadState
    \/ LoopExit
    \/ Poll
    \/ WaitTimesOut
    \/ ForDone
    \/ ForShutdown
    \/ ProcessRaises
    \/ BidSubmit
    \/ LedgerExecute
    \/ BidReturn
    \/ SaveOpen
    \/ SaveWrite
    \/ Finally

SpecMalformed == Init /\ [][NextMalformed]_vars
\* The program against a feed that may deliver an event again.
SpecRedeliver == Init /\ [][NextRedeliver]_vars

SpecAddress == InitAnyAddress /\ [][Next]_vars

\* The same program started with any of the ratios in its .env, against
\* publishers that also escrow the budgets of the pricing runs.
InitAnyRatio ==
    /\ file = Absent
    /\ config \in {c \in Configs : c.platform_address # "" /\ c.profile_readable}
    /\ InitState

NextPrice == Next \/ \E n \in SeqNums, b \in PriceBudgets : Publish(n, b)

SpecPrice == InitAnyRatio /\ [][NextPrice]_vars

\* The program with its default ratio, against publishers that also escrow
\* the smallest budget.
NextSmall == Next \/ \E n \in SeqNums, b \in SmallBudgets : Publish(n, b)

SpecSmall == Init /\ [][NextSmall]_vars

SpecProfile == InitAnyProfile /\ [][Next]_vars

\* ------------------------------------- the registry under its clients
\* What the clients' transactions leave alone: the service agent's process
\* and its checkpoint file.
monitor_state ==
    <<file, pc, shutdown_event, last_seq_num, events, idx, txn, saveArg, saveRet,
      faults, crashes, observed, finalWrites, cycleStart, lastOutcome, retry,
      saveOld, ioError, interrupted, recovering, config, inflight, submitted,
      checkpointed>>

agent_state == <<monitor_state, script>>

\* The transaction of publish_task.py: applied, it escrows the budget and
\* emits the TaskPublishedEvent; rejected, it changes nothing.
TxPublish(creator, n, max_budget, deadline_in_future) ==
    /\ n <= Cardinality(feed) + 1
    /\ LET r == publish_task(registry[n], creator, max_budget, deadline_in_future)
       IN /\ registry' = [registry EXCEPT ![n] = r.task]
          /\ feed' = IF r.result = "ok"
                     THEN feed \cup {[sequence_number |-> n, task_id |-> n,
                                      max_budget |-> max_budget]}
                     ELSE feed
    /\ UNCHANGED agent_state

\* The transaction of place_bid.py.
TxPlaceBid(bidder, t, price) ==
    /\ registry' = [registry EXCEPT ![t] = place_bid(@, bidder, price, ReputationScore).task]
    /\ UNCHANGED feed
    /\ UNCHANGED agent_state

\* The transaction of select_winner.py; the contract's policy picks the bid.
TxSelectWinner(caller, t) ==
    /\ \E i \in 1..Max0({1, Len(registry[t].bids)}) :
           registry' = [registry EXCEPT ![t] = select_winner(@, i).task]
    /\ UNCHANGED feed
    /\ UNCHANGED agent_state

\* The transaction of complete_task.py.
TxCompleteTask(caller, t) ==
    /\ registry' = [registry EXCEPT ![t] = complete_task(@, caller).task]
    /\ UNCHANGED feed
    /\ UNCHANGED agent_state

\* The transaction of cancel_task.py.
TxCancelTask(caller, t) ==
    /\ registry' = [registry EXCEPT ![t] = cancel_task(@, caller).task]
    /\ UNCHANGED feed
    /\ UNCHANGED agent_state

NextRegistry ==
    \/ \E n \in SeqNums, b \in Budgets \cup {0}, d \in BOOLEAN : TxPublish(Creator, n, b, d)
    \/ \E bidder \in {Agent, Rival}, t \in SeqNums :
           \E price \in BidPrices(bidder) : TxPlaceBid(bidder, t, price)
    \/ \E caller \in Callers, t \in SeqNums : TxSelectWinner(caller, t)
    \/ \E caller \in Callers, t \in SeqNums : TxCompleteTask(caller, t)
    \/ \E caller \in Callers, t \in SeqNums : TxCancelTask(caller, t)
    \/ \E t \in SeqNums : DeadlinePasses(t)

\* The registry under any sequence of its clients' transactions.
SpecRegistry == Init /\ [][NextRegistry]_vars
\* ------------------------------------------------ the agent on a backlog
\* A first start against a feed that already holds MaxBacklog events, each
\* of an open task.
InitBacklog ==
    /\ file = Absent
    /\ config = Configured
    /\ \E b \in Budgets :
           /\ feed = {[sequence_number |-> n, task_id |-> n, max_budget |-> b] :
                         n \in 1..MaxBacklog}
           /\ registry = [t \in 1..MaxBacklog |-> publish_task(NoTask, Creator, b, TRUE).task]
    /\ pc = "start"
    /\ shutdown_event = FALSE
    /\ last_seq_num = 0
    /\ events = <<>>
    /\ idx = 0
    /\ txn = "none"
    /\ saveArg = 0
    /\ saveRet = "none"
    /\ faults = 0
    /\ crashes = 0
    /\ observed = FALSE
    /\ finalWrites = 0
    /\ cycleStart = 0
    /\ lastOutcome = "none"
    /\ retry = 0
    /\ saveOld = 0
    /\ ioError = FALSE
    /\ interrupted = NoWrite
    /\ recovering = 0
    /\ inflight = NoFlight
    /\ submitted = {}
    /\ checkpointed = [n \in SeqNums |-> [done |-> FALSE, late |-> {}]]
    /\ script = NoScript

\* The steps of a run in which the feed answers, every submission is
\* confirmed, every write succeeds and no signal arrives.
NextBacklog ==
    \/ Construct
    \/ LoadState
    \/ Poll
    \/ WaitTimesOut
    \/ ForDone
    \/ BidSubmit
    \/ LedgerExecute
    \/ BidReturn
    \/ SaveOpen
    \/ SaveWrite

\* The process keeps running: one coroutine, every await of which returns.
FairBacklog == InitBacklog /\ [][NextBacklog]_vars /\ WF_vars(NextBacklog)
\* ------------------------------------------------ the standalone scripts
Whitespace == {" "}
Characters == Whitespace \cup {"a"}

\* The task ids given on the command line, as sequences of characters.
TaskIds == UNION {[1..n -> Characters] : n \in 0..MaxIdLen}

\* A str.strip() that removes nothing.
strip_nothing(s) == s
\* str.strip(): the text without its leading and trailing whitespace.
strip(s) ==
    LET solid == {i \in 1..Len(s) : s[i] \notin Whitespace}
    IN IF solid = {} THEN <<>> ELSE SubSeq(s, Min(solid), Max0(solid))

\* Arguments argparse hands to main() of publish_task.py and of place_bid.py.
PublishArgs == [task_id : TaskIds, max_budget : {-1, 0, 1}, deadline_seconds : {-1, 0, 3600}]
BidArgs == [task_id : TaskIds, bid_price : {-1, 0, 1}, reputation_score : {-1, 0, 100, 101}]

\* The parameter validation of publish_task.py: the error it prints, or "ok".
validate_publish(args) ==
    IF args.max_budget <= 0 THEN "Error: Maximum budget must be greater than 0"
    ELSE IF args.deadline_seconds <= 0 THEN "Error: Deadline must be greater than 0"
    ELSE IF Len(strip(args.task_id)) = 0 THEN "Error: Task ID cannot be empty"
    ELSE "ok"

\* The parameter validation of place_bid.py: the error it prints, or "ok".
validate_bid(args) ==
    IF args.bid_price <= 0 THEN "Error: Bid price must be greater than 0"
    ELSE IF args.reputation_score < 0 \/ args.reputation_score > 100
         THEN "Error: Reputation score must be between 0-100"
    ELSE IF Len(strip(args.task_id)) = 0 THEN "Error: Task ID cannot be empty"
    ELSE "ok"

\* A script is started with some arguments.
InitScripts ==
    /\ file = Absent
    /\ config = Configured
    /\ AgentNotStarted
    /\ script \in
           {[name |-> "publish_task", args |-> a, pc |-> "main", ledger_calls |-> 0,
             printed |-> "", result |-> "none"] : a \in PublishArgs}
           \cup
           {[name |-> "place_bid", args |-> a, pc |-> "main", ledger_calls |-> 0,
             printed |-> "", result |-> "none"] : a \in BidArgs}

\* platform_addr = args.platform if args.platform else get_platform_address(...):
\* the address is given or read from the profile, or the profile cannot be
\* read and main() ends with the exception.
ScriptAddress ==
    /\ script.pc = "main"
    /\ \/ script' = [script EXCEPT !.pc = "validate"]
       \/ script' = [script EXCEPT !.pc = "raised"]
    /\ UNCHANGED <<feed, registry, monitor_state>>

\* The parameter checks of main(): print the error and return, or go on to
\* the call of publish_task / place_bid.
ScriptValidate ==
    /\ script.pc = "validate"
    /\ LET message == IF script.name = "publish_task"
                      THEN validate_publish(script.args)
                      ELSE validate_bid(script.args)
       IN IF message = "ok"
          THEN script' = [script EXCEPT !.pc = "call"]
          ELSE script' = [script EXCEPT !.pc = "returned", !.printed = message]
    /\ UNCHANGED <<feed, registry, monitor_state>>

\* get_client_and_account(profile): a client object and the account of the
\* profile, or an exception before the try block.
ScriptOpenClient ==
    /\ script.pc = "call"
    /\ \/ script' = [script EXCEPT !.pc = "try"]
       \/ script' = [script EXCEPT !.pc = "raised"]
    /\ UNCHANGED <<feed, registry, monitor_state>>

\* The position after each call of the ledger client in the try block:
\* create_bcs_signed_transaction, submit_bcs_transaction,
\* wait_for_transaction, transaction_by_hash.
AfterLedgerCall(position) ==
    CASE position = "try" -> "signed"
      [] position = "signed" -> "submitted"
      [] position = "submitted" -> "waited"
      [] position = "waited" -> "finally"

\* One call of the ledger client: it returns, or it raises and except
\* Exception returns False.
ScriptLedgerCall ==
    /\ script.pc \in {"try", "signed", "submitted", "waited"}
    /\ \/ script' = [script EXCEPT !.pc = AfterLedgerCall(@),
                                   !.ledger_calls = @ + 1,
                                   !.result = IF script.pc = "waited" THEN "True" ELSE @]
       \/ script' = [script EXCEPT !.pc = "finally",
                                   !.ledger_calls = @ + 1,
                                   !.result = "False"]
    /\ UNCHANGED <<feed, registry, monitor_state>>

\* finally: await client.close(); main() prints the outcome.
ScriptClose ==
    /\ script.pc = "finally"
    /\ script' = [script EXCEPT !.pc = "returned",
                                !.printed = IF script.result = "True"
                                            THEN "complete!" ELSE "failed!"]
    /\ UNCHANGED <<feed, registry, monitor_state>>

NextScripts ==
    \/ ScriptAddress
    \/ ScriptValidate
    \/ ScriptOpenClient
    \/ ScriptLedgerCall
    \/ ScriptClose

SpecScripts == InitScripts /\ [][NextScripts]_vars
\* ------------------------------------------------------ the deployer
\* The steps of BiddingDeployer.full_deployment, in the order of its code.
Steps == <<"compile_contract", "run_tests", "deploy_contract", "initialize_platform",
           "verify_deployment">>

\* How a step can end: it returns True or False, or it raises (the aptos
\* command cannot be started, the profile cannot be read).
StepOutcomes == {"True", "False", "raise"}

\* A full_deployment that goes on after failing tests.
step_failed_unless_tests(step, outcome) == outcome = "False" /\ step # "run_tests"
\* if not self.<step>(): return False
step_failed(step, outcome) == outcome = "False"

\* full_deployment is called; what each step would do is the environment's.
InitDeploy ==
    /\ file = Absent
    /\ config = Configured
    /\ AgentNotStarted
    /\ script \in {[name |-> "full_deployment", outcomes |-> o, pc |-> "running", next |-> 1,
                    started |-> <<>>, result |-> "none"] :
                      o \in [{Steps[i] : i \in 1..Len(Steps)} -> StepOutcomes]}

\* The next step of full_deployment runs: on False full_deployment returns
\* False, on an exception it ends with that exception, else it goes on.
DeployStep ==
    /\ script.name = "full_deployment"
    /\ script.pc = "running"
    /\ script.next \in 1..Len(Steps)
    /\ LET step == Steps[script.next]
           outcome == script.outcomes[step]
       IN script' =
              [script EXCEPT
                  !.started = Append(@, step),
                  !.pc = IF outcome = "raise" THEN "raised"
                         ELSE IF step_failed(step, outcome) THEN "returned"
                         ELSE @,
                  !.next = @ + 1,
                  !.result = IF outcome # "raise" /\ step_failed(step, outcome)
                             THEN "False" ELSE @]
    /\ UNCHANGED <<feed, registry, monitor_state>>

\* After the fifth step: the closing messages, one of which calls
\* get_platform_address, and return True.
DeployFinish ==
    /\ script.name = "full_deployment"
    /\ script.pc = "running"
    /\ script.next = Len(Steps) + 1
    /\ \/ script' = [script EXCEPT !.pc = "returned", !.result = "True"]
       \/ script' = [script EXCEPT !.pc = "raised"]
    /\ UNCHANGED <<feed, registry, monitor_state>>

NextDeploy == DeployStep \/ DeployFinish

SpecDeploy == InitDeploy /\ [][NextDeploy]_vars
\* What the publish command writes to its error output, as words.
ErrorOutputs == {<<>>, <<"Error">>, <<"error">>, <<"warning">>, <<"Warning", "error">>}

\* str.lower() on a word.
lower(word) ==
    CASE word = "Error" -> "error"
      [] word = "Warning" -> "warning"
      [] OTHER -> word

\* "word" in text.lower()
in_lower(word, text) == \E i \in 1..Len(text) : lower(text[i]) = word

\* The modules an account can hold, each as the pieces of the text str(module)
\* prints; the first piece is the module's name up to any suffix.
Modules == {<<"bidding_system">>, <<"bidding_system", "_v2">>, <<"task_manager">>}

\* "bidding_system" in str(module)
in_str(piece, module) == \E i \in 1..Len(module) : module[i] = piece

\* What the listing command prints: no JSON, a JSON array, or a JSON object
\* whose Result member lists the modules of the account.
Listings ==
    {[kind |-> "not_json", modules |-> {}], [kind |-> "json_array", modules |-> {}]}
    \cup {[kind |-> "json_object", modules |-> ms] : ms \in SUBSET Modules}

\* deploy_contract is called; the two commands' results are the environment's.
InitDeployContract ==
    /\ file = Absent
    /\ config = Configured
    /\ AgentNotStarted
    /\ script \in [name : {"deploy_contract"},
                   returncode : {0, 1},
                   stderr : ErrorOutputs,
                   verify_returncode : {0, 1},
                   verify_stdout : Listings,
                   pc : {"publish"},
                   listed : {FALSE},
                   result : {"none"}]

\* get_platform_address and the publish command: an exit status other than 0
\* with an error and no warning in the error output returns False; anything
\* else goes on to the verification.
DeployPublish ==
    /\ script.name = "deploy_contract"
    /\ script.pc = "publish"
    /\ \/ script' = [script EXCEPT !.pc = "raised"]
       \/ IF /\ script.returncode # 0
             /\ in_lower("error", script.stderr)
             /\ ~in_lower("warning", script.stderr)
          THEN script' = [script EXCEPT !.pc = "returned", !.result = "False"]
          ELSE script' = [script EXCEPT !.pc = "verify"]
    /\ UNCHANGED <<feed, registry, monitor_state>>

\* aptos account list --query modules, and what deploy_contract makes of it.
DeployVerify ==
    /\ script.name = "deploy_contract"
    /\ script.pc = "verify"
    /\ LET listing == script.verify_stdout
       IN script' =
              [script EXCEPT
                  !.listed = TRUE,
                  !.pc = IF script.verify_returncode = 0 /\ listing.kind = "json_array"
                         THEN "raised" ELSE "returned",
                  !.result =
                      IF script.verify_returncode # 0 THEN "False"
                      ELSE CASE listing.kind = "not_json" -> "False"
                             [] listing.kind = "json_array" -> @
                             [] OTHER ->
                                 IF \E module \in listing.modules :
                                        in_str("bidding_system", module)
                                 THEN "True" ELSE "False"]
    /\ UNCHANGED <<feed, registry, monitor_state>>

NextDeployContract == DeployPublish \/ DeployVerify

SpecDeployContract == InitDeployContract /\ [][NextDeployContract]_vars
\* The steps the running process takes by itself when nothing fails: one
\* coroutine on one event loop, every await of which returns.
AgentStep ==
    \/ Construct
    \/ LoadState
    \/ LoopExit
    \/ Poll
    \/ WaitTimesOut
    \/ ForDone
    \/ ForShutdown
    \/ BidSubmit
    \/ LedgerExecute
    \/ BidReturn
    \/ SaveOpen
    \/ SaveWrite
    \/ Finally

\* The process keeps running, and a stopped service is started again.
FairSpec == Spec /\ WF_vars(AgentStep) /\ WF_vars(Restart)

\* ------------------------------------------------------------- the claims
\* The event of the batch place_bid was last called for.
LastAttempt == IF idx \in 1..Len(events) THEN events[idx].sequence_number ELSE 0

\* The agent's bid for the event with sequence number n is on the ledger.
Confirmed(n) ==
    \E e \in feed : e.sequence_number = n /\ HasBid(registry[e.task_id], Agent)

\* The highest sequence number whose bid the ledger confirmed.
LastConfirmed == Max0({n \in PublishedSeqs : Confirmed(n)})

\* C1: the checkpoint is written for sequence number N only after the bid
\* for event N is confirmed; the file never holds the number of an event whose
\* bid is unconfirmed or failed.
C1_SaveAfterConfirm ==
    /\ (file.kind = "valid" /\ file.val # 0) => Confirmed(file.val)
    /\ (pc \in {"save_open", "save_write"} /\ saveRet = "after_process") =>
           (saveArg = LastAttempt /\ Confirmed(saveArg))

\* C1 witness: the file holds the sequence number of a processed event.
C1_Witness == file.kind = "valid" /\ file.val # 0 /\ pc = "for"

\* C2: the persisted cursor never decreases (a write in progress aside) and
\* never exceeds the sequence number of the last confirmed submission.
C2_CursorMonotone ==
    /\ [][pc' # "save_write" =>
              Persisted' >= (IF pc = "save_write" THEN saveOld ELSE Persisted)]_vars
    /\ [](Persisted <= LastConfirmed)

\* C3 as stated: after a transient failure of event N the cursor equals its
\* value before the poll cycle.
C3_CursorAtCycleStart ==
    (pc = "rest" /\ lastOutcome = "transient") => last_seq_num = cycleStart

\* C3 amended: after a transient failure of event N the loop has left the
\* batch at N, the cursor in memory is what it was when N was attempted (the
\* pre-cycle value for the first event of the batch, else the sequence number
\* of the event before N in the batch), the persisted cursor is below N, and
\* the next non-empty batch of the process starts with N.
C3_NoAdvanceOnTransient ==
    /\ lastOutcome = "transient" =>
           /\ pc = "rest"
           /\ idx \in 1..Len(events)
           /\ last_seq_num = (IF idx = 1 THEN cycleStart
                              ELSE events[idx - 1].sequence_number)
           /\ last_seq_num < LastAttempt
           /\ Persisted < LastAttempt
           /\ retry = LastAttempt
    /\ (retry # 0 /\ pc = "for") => (idx = 1 /\ events[1].sequence_number = retry)

\* C3 witness: a transient failure of an event after an earlier event of its
\* batch had succeeded.
C3_Witness == lastOutcome = "transient" /\ pc = "rest" /\ idx > 1

\* C4: after a kill during save_state the next start loads the previously
\* persisted value or the new one.
C4_NoTornCheckpoint ==
    interrupted.active => Persisted \in {interrupted.old, interrupted.new}

\* The task of the event with sequence number n still takes bids.
StillOpen(n) ==
    \E e \in feed : /\ e.sequence_number = n
                    /\ registry[e.task_id].status = "PUBLISHED"
                    /\ ~registry[e.task_id].expired

\* C5: after a kill between the confirmation of event N's bid and its
\* checkpoint, the registry holds no second bid of the agent for the task and
\* the cursor eventually reaches N (at the latest when the service is told to
\* stop or the task stops taking bids).
C5_IdempotentRecovery ==
    /\ [](\A t \in SeqNums : BidsOf(registry[t], Agent) <= 1)
    /\ (recovering # 0) ~>
           (Persisted >= recovering \/ shutdown_event \/ ~StillOpen(recovering))

\* C6: a place_bid rejected because the agent already bid or the task is
\* resolved counts as done: the cursor moves to that event.
C6_DuplicateAdvances ==
    lastOutcome \in {"DuplicateBid", "TaskNotOpen"} =>
        (pc \in {"save_open", "save_write"} \/ last_seq_num >= LastAttempt)

\* C7: a place_bid rejected for a reason no retry can change (deadline
\* passed) is skipped: the cursor moves past that event.
C7_PermanentRejectionSkipped ==
    lastOutcome = "DeadlinePassed" =>
        (pc \in {"save_open", "save_write"} \/ last_seq_num >= LastAttempt)

\* C8: load_state returns an unsigned integer for every content of the
\* file, and the process reaches its poll loop instead of failing.
C8_LoadNeverFails ==
    /\ pc # "exit1"
    /\ last_seq_num \in Nat
    /\ (pc = "loop" /\ file.kind # "valid") => last_seq_num = 0

\* Steps left on the shutdown path: the return in the for loop writes and then
\* runs the finally block, which writes again and ends monitor_tasks.
ShutdownRank ==
    CASE pc = "done" -> 0
      [] pc = "save_write" /\ saveRet = "done" -> 1
      [] pc = "save_open" /\ saveRet = "done" -> 2
      [] pc = "finally" -> 3
      [] pc = "save_write" /\ saveRet = "return" -> 4
      [] pc = "save_open" /\ saveRet = "return" -> 5
      [] OTHER -> 6

\* C9: once the process has seen shutdown_event set it submits nothing, writes
\* the cursor it knows (unless that write itself reports an IOError) and ends:
\* until it has ended it always has a next step, and each of its steps brings
\* it nearer to the end.
C9_ShutdownPersistsAndExits ==
    /\ [](observed => (pc \in {"finally", "save_open", "save_write", "done"} /\ txn = "none"))
    /\ []((pc = "done" /\ ~ioError) => (observed /\ file = Valid(last_seq_num)))
    /\ []((observed /\ pc # "done") => ENABLED AgentStep)
    /\ [][(observed /\ observed') =>
              /\ ShutdownRank' <= ShutdownRank
              /\ ShutdownRank < 6
              /\ (pc' # pc => ShutdownRank' < ShutdownRank)]_vars

\* C9 witness: the process has ended after a batch in which it advanced.
C9_Witness == pc = "done" /\ ~ioError /\ last_seq_num # 0 /\ file = Valid(last_seq_num)

\* C10: on every shutdown path the final cursor write runs exactly once (a
\* path whose last write reported an IOError aside).
C10_FinalWriteOnce == (pc = "done" /\ ~ioError) => finalWrites = 1

\* C11: a signal that arrives while a place_bid is in flight does not end it:
\* until place_bid has returned the process stays in it and has its next step,
\* the shutdown path starts only afterwards, and when that place_bid was
\* confirmed the file at the end holds its event's sequence number (unless the
\* last write reported an IOError).
C11_InFlightCompletes ==
    /\ inflight.outcome = "pending" =>
           /\ pc \in {"submitted", "executed"}
           /\ inflight.seq = LastAttempt
           /\ ~observed
           /\ ENABLED (LedgerExecute \/ BidReturn)
    /\ (pc = "done" /\ ~ioError /\ inflight.outcome = "confirmed") =>
           file = Valid(inflight.seq)

\* C11 witness: the process has ended after a signal that arrived during a
\* submission which was then confirmed.
C11_Witness ==
    pc = "done" /\ inflight.outcome = "confirmed" /\ file = Valid(inflight.seq)

\* Steps the process still has to take once shutdown_event is set, counted
\* along its longest way to the end of monitor_tasks.
TerminationRank ==
    CASE pc = "done" -> 0
      [] pc = "save_write" /\ saveRet = "done" -> 1
      [] pc = "save_open" /\ saveRet = "done" -> 2
      [] pc = "finally" -> 3
      [] pc = "save_write" /\ saveRet = "return" -> 4
      [] pc = "save_open" /\ saveRet = "return" -> 5
      [] pc = "loop" -> 4
      [] pc \in {"idle_wait", "rest", "backoff", "boot"} -> 5
      [] pc \in {"start", "for"} -> 6
      [] pc = "save_write" /\ saveRet = "after_process" -> 7
      [] pc = "save_open" /\ saveRet = "after_process" -> 8
      [] pc = "executed" -> 9
      [] pc = "submitted" -> 10
      [] OTHER -> 11

\* C12: SIGINT and SIGTERM have the same effect in every state, and once
\* either has set shutdown_event the running process, wherever it is (waiting,
\* polling, processing a batch), always has a next step, every step it takes
\* brings it nearer to the end of monitor_tasks, and it ends only after a
\* final save_state call.
C12_SignalTerminates ==
    /\ [][Signal("SIGINT") <=> Signal("SIGTERM")]_vars
    /\ [](ENABLED Signal("SIGINT") <=> ENABLED Signal("SIGTERM"))
    /\ []((shutdown_event /\ Alive) => (ENABLED AgentStep /\ TerminationRank < 11))
    /\ [][(shutdown_event /\ shutdown_event') =>
              /\ TerminationRank' <= TerminationRank
              /\ pc' # pc => TerminationRank' < TerminationRank]_vars
    /\ []((pc = "done") => (shutdown_event /\ (finalWrites >= 1 \/ ioError)))

\* C12 witness: the process has ended after a signal that arrived while it was
\* processing an event whose submission then failed.
C12_Witness ==
    pc = "done" /\ inflight.seq # 0 /\ inflight.outcome \notin {"pending", "confirmed"}

\* C13 as stated: of two checkpointed events a < b, a was checkpointed before
\* b's bid was submitted.
C13_CheckpointedBeforeNext ==
    \A a \in SeqNums, b \in SeqNums :
        (a < b /\ checkpointed[a].done /\ checkpointed[b].done) =>
            b \notin checkpointed[a].late

\* C13 amended: a batch is in ascending order and above the cursor it was
\* queried with; when b's bid is submitted the bid of every published event
\* below b is confirmed; and the write process_task_event makes after a's
\* confirmation happens while nothing above a has been submitted. (A write of
\* the shutdown path can still checkpoint a after a higher event was
\* submitted, when a's own write had failed.)
C13_AscendingProcessing ==
    /\ \A i \in 1..Len(events) :
           /\ events[i].sequence_number > cycleStart
           /\ \A j \in 1..Len(events) :
                  i < j => events[i].sequence_number < events[j].sequence_number
    /\ \A b \in submitted : \A a \in PublishedSeqs : a < b => Confirmed(a)
    /\ (pc \in {"save_open", "save_write"} /\ saveRet = "after_process") =>
           \A b \in submitted : b <= saveArg

\* C13 witness: two events are checkpointed, the lower one before the higher
\* one was submitted.
C13_Witness ==
    \E a \in SeqNums, b \in SeqNums :
        /\ a < b
        /\ checkpointed[a].done
        /\ checkpointed[b].done
        /\ b \notin checkpointed[a].late

\* Ways a place_bid ends that the design does not count as done: a network
\* failure or timeout, and a rejection that is not about a duplicate or a
\* resolved task.
NonIdempotentFailures == {"transient", "TaskNotFound", "DeadlinePassed", "InvalidPrice"}

\* C14: after such a failure of an event the for loop is left at that event
\* with the cursor at the event processed before it; until the failed event
\* is submitted again nothing is in flight, the cursor stays below it, and the
\* next batch the loop works on starts with it.
C14_BatchStopsOnFailure ==
    /\ lastOutcome \in NonIdempotentFailures =>
           /\ pc = "rest"
           /\ idx \in 1..Len(events)
           /\ retry = LastAttempt
           /\ last_seq_num = (IF idx = 1 THEN cycleStart
                              ELSE events[idx - 1].sequence_number)
    /\ retry # 0 =>
           /\ pc \notin {"submitted", "executed"}
           /\ txn = "none"
           /\ last_seq_num < retry
           /\ Persisted < retry
           /\ pc = "for" => (idx = 1 /\ events[1].sequence_number = retry)

\* C14 witness: an event whose submission failed without reaching the ledger
\* is first in the next batch, with a higher event behind it.
C14_Witness ==
    /\ retry # 0
    /\ pc = "for"
    /\ StillOpen(retry)
    /\ ~Confirmed(retry)
    /\ Len(events) > 1

\* C15: with the cursor in memory and on disk equal, a place_bid is submitted
\* only for an event above the cursor, and the save after a processed event
\* never writes a number at or below the cursor, also against a feed that
\* delivers an event again.
C15_ActsOnlyAboveCursor ==
    /\ (pc \in {"submitted", "executed"} /\ file = Valid(last_seq_num)) =>
           LastAttempt > last_seq_num
    /\ (pc \in {"save_open", "save_write"} /\ saveRet = "after_process") =>
           saveArg > last_seq_num

\* The feed holds an event above the cursor of the running process.
Pending == \E e \in feed : e.sequence_number > last_seq_num

\* The lowest sequence number above the cursor.
LowestPending == Min({n \in PublishedSeqs : n > last_seq_num})

\* The process is between an empty result and the first submission of the
\* next batch.
BeforeFirstSubmit == pc \in {"idle_wait", "loop"} \/ (pc = "for" /\ idx = 1)

\* Steps from the idle wait to the submission of the first event of a batch.
PollRank ==
    CASE pc = "idle_wait" -> 3
      [] pc = "loop" -> 2
      [] pc = "for" -> 1
      [] OTHER -> 0

\* C16: a query that returns nothing leaves the cursor and the file as they
\* are and puts the process into its idle wait, from which it goes back to
\* the query; while no signal has arrived the process then always has a next
\* step, and once an event above the cursor is in the feed every step it
\* takes brings it nearer to submitting the lowest such event.
C16_EmptyIsNotEnd ==
    /\ [][(Poll /\ events' = <<>>) =>
              /\ pc' = "idle_wait"
              /\ last_seq_num' = last_seq_num
              /\ file' = file
              /\ ~observed']_vars
    /\ [](pc = "idle_wait" => (Alive /\ ENABLED WaitTimesOut))
    /\ []((pc \in {"idle_wait", "loop"} /\ ~shutdown_event) => ENABLED AgentStep)
    /\ [][(AgentStep /\ ~shutdown_event /\ Pending /\ BeforeFirstSubmit) =>
              /\ PollRank' < PollRank
              /\ last_seq_num' = last_seq_num
              /\ (pc' = "for") =>
                     (idx' = 1 /\ events'[1].sequence_number = LowestPending)
              /\ (PollRank' = 0) =>
                     (pc' = "submitted" /\ events'[idx'].sequence_number = LowestPending)]_vars

\* C16 witness: an event has appeared in the feed while the process is in the
\* idle wait that followed an empty result.
C16_Witness == pc = "idle_wait" /\ Pending /\ ~shutdown_event

C18_AbortsWithoutAddress ==
    config.platform_address = "" =>
        /\ pc \in {"start", "abort"}
        /\ pc = "start" => ENABLED Construct
        /\ file = Absent
        /\ last_seq_num = 0
        /\ events = <<>>
        /\ submitted = {}
        /\ txn = "none"
        /\ \A t \in SeqNums : ~HasBid(registry[t], Agent)

\* C18 witness: the process has ended in the constructor while a task it
\* could have bid on is published.
C18_Witness == pc = "abort" /\ feed # {}

\* C19: a process started with an unreadable account profile has ended at
\* startup: it never comes to offer a failed event to place_bid again.
C19_NoRetryWithoutCredentials ==
    ~config.profile_readable => ~(pc = "for" /\ retry # 0)

\* C20: the process ends with a non-zero status only for a fatal
\* configuration failure (PLATFORM_ADDRESS missing, account profile
\* unreadable), whatever the feed, the ledger and the checkpoint file do.
C20_NonZeroExitOnlyOnConfig ==
    pc \in {"exit1", "abort"} =>
        (address_missing(config.platform_address) \/ ~config.profile_readable)

\* C21: the agent has at most one bid submission in flight. A transaction
\* is outstanding only while the loop stands in the place_bid of one event
\* of the batch, every earlier event of the batch has returned and is the
\* cursor, no save and no wait runs meanwhile, and outside place_bid no
\* transaction is outstanding.
C21_OneSubmissionInFlight ==
    /\ txn # "none" <=> pc \in {"submitted", "executed"}
    /\ pc \in {"submitted", "executed"} =>
        /\ idx \in 1..Len(events)
        /\ events[idx].sequence_number \in submitted
        /\ \A i \in 1..(idx - 1) : events[i].sequence_number <= last_seq_num
        /\ idx > 1 => last_seq_num = events[idx - 1].sequence_number

\* C21 witness: the second event of a batch is in flight after the first
\* has returned.
C21_Witness == pc = "submitted" /\ idx = 2 /\ txn = "pending"

\* The decimal fraction a ratio of the .env file spells.
Decimal(ratio) ==
    IF ratio = DefaultRatio THEN [num |-> BidRatioNum, den |-> BidRatioDen]
    ELSE [num |-> 7, den |-> 10]

\* floor(max_budget x bid_ratio), in exact arithmetic.
floor_price(max_budget, ratio) ==
    (max_budget * Decimal(ratio).num) \div Decimal(ratio).den

\* C22: every bid of the agent on the ledger carries the price
\* floor(max_budget x bid_ratio) of its task and the configured reputation
\* score.
C22_PriceIsFloor ==
    \A t \in SeqNums : \A i \in 1..Len(registry[t].bids) :
        registry[t].bids[i].bidder = Agent =>
            /\ registry[t].bids[i].price =
                   floor_price(registry[t].max_budget, config.bid_price_ratio)
            /\ registry[t].bids[i].reputation_score = ReputationScore

\* With bid_ratio 0.8 the bid on a task of budget 100000000 is 80000000.
C22_Example ==
    config.bid_price_ratio = "0.8" =>
        \A t \in SeqNums : \A i \in 1..Len(registry[t].bids) :
            (registry[t].bids[i].bidder = Agent /\ registry[t].max_budget = 100000000)
                => registry[t].bids[i].price = 80000000

\* A bid on a task of budget 100000000 is on the ledger.
C22_ExampleReached ==
    \E t \in SeqNums : registry[t].max_budget = 100000000 /\ HasBid(registry[t], Agent)

\* C23: the agent assumes no contiguous numbering. The cursor, in memory and
\* in the checkpoint file, is 0 or the sequence number of a published event
\* the agent has submitted a bid for, and after each event of a batch it is
\* that event's own sequence number.
C23_CursorIsEventNumber ==
    /\ last_seq_num # 0 => last_seq_num \in PublishedSeqs \cap submitted
    /\ Persisted # 0 => Persisted \in PublishedSeqs \cap submitted
    /\ (pc = "for" /\ idx > 1) => last_seq_num = events[idx - 1].sequence_number
    /\ \A i \in 1..Len(events) : events[i] \in feed

\* C23 witness: sequence number 1 was skipped, and the event numbered 2 was
\* processed with the cursor going from 0 to 2.
C23_Witness ==
    /\ PublishedSeqs = {2}
    /\ pc = "for"
    /\ idx = 2
    /\ cycleStart = 0
    /\ last_seq_num = 2
    /\ HasBid(registry[2], Agent)

\* C24: after the one checkpoint write of a run that failed, the process
\* runs on, and the cursor a restart would load is at most one event behind
\* the cursor in memory.
C24_StaleByAtMostOne ==
    (ioError /\ faults = 1 /\ crashes = 0) =>
        /\ Alive \/ pc = "done"
        /\ Cardinality({n \in PublishedSeqs : Persisted < n /\ n <= last_seq_num}) <= 1

\* C25: poll cadence. Unless cancellation has been signalled, the wait after
\* an empty poll lasts the configured poll interval, and the wait after an
\* exception in the poll path lasts the backoff interval, which is longer.
C25_PollCadence ==
    /\ (pc = "idle_wait" /\ ~shutdown_event) =>
           WaitFor("idle_wait") = PollInterval
    /\ (pc = "backoff" /\ ~shutdown_event) =>
           /\ WaitFor("backoff") = BackoffPause
           /\ WaitFor("backoff") > WaitFor("idle_wait")

\* ------------------------------------------------- the registry's claims
\* The status changes the lifecycle allows; a task id comes into being as
\* PUBLISHED.
Lifecycle ==
    {<<"NONE", "PUBLISHED">>, <<"PUBLISHED", "ASSIGNED">>,
     <<"ASSIGNED", "COMPLETED">>, <<"PUBLISHED", "CANCELLED">>}

\* C26: under any sequence of publish, place_bid, select_winner,
\* complete_task and cancel_task transactions a task's status changes only
\* from PUBLISHED to ASSIGNED, from ASSIGNED to COMPLETED or from PUBLISHED
\* to CANCELLED, so COMPLETED and CANCELLED are never left; and cancel_task
\* on an ASSIGNED task is rejected as not open and changes nothing.
C26_StatusTransitions ==
    /\ [][\A t \in SeqNums :
              registry'[t].status # registry[t].status =>
                  <<registry[t].status, registry'[t].status>> \in Lifecycle]_vars
    /\ [](\A t \in SeqNums, caller \in Callers :
              registry[t].status = "ASSIGNED" =>
                  cancel_task(registry[t], caller) = Rejected("TaskNotOpen", registry[t]))

\* C26 witness: one task has gone through to COMPLETED and another was
\* cancelled.
C26_Witness ==
    \E t, u \in SeqNums :
        registry[t].status = "COMPLETED" /\ registry[u].status = "CANCELLED"

\* C27: a bid is recorded only on a task that is PUBLISHED and whose
\* deadline has not passed; on a COMPLETED or CANCELLED task place_bid fails
\* as not open for every bidder and price and leaves the task as it is.
C27_BidsOnlyWhileOpen ==
    /\ [][\A t \in SeqNums :
              registry'[t].bids # registry[t].bids =>
                  /\ registry[t].status = "PUBLISHED"
                  /\ ~registry[t].expired
                  /\ Len(registry'[t].bids) = Len(registry[t].bids) + 1]_vars
    /\ [](\A t \in SeqNums, bidder \in {Agent, Rival} : \A price \in BidPrices(bidder) :
              registry[t].status \in {"COMPLETED", "CANCELLED"} =>
                  place_bid(registry[t], bidder, price, ReputationScore)
                      = Rejected("TaskNotOpen", registry[t]))

\* C27 witness: a task that had a bid was cancelled, and one that had bids
\* is completed.
C27_Witness ==
    \E t, u \in SeqNums :
        /\ registry[t].status = "CANCELLED" /\ registry[t].bids # <<>>
        /\ registry[u].status = "COMPLETED"

\* The task's winner and winning price are those of one of its bids.
WinnerAmongBids(task) ==
    \E i \in 1..Len(task.bids) :
        task.bids[i].bidder = task.winner /\ task.bids[i].price = task.winning_price

\* C28: select_winner is applied only to a PUBLISHED task with at least one
\* bid and fails with NoBids on one without; it records as winner the bidder
\* of a bid the task holds, with that bid's price as the winning price; a
\* task that was never assigned has no winner and no winning price, and an
\* assigned task's winner and winning price never change.
C28_WinnerSelection ==
    /\ [][\A t \in SeqNums :
              (registry'[t].status = "ASSIGNED" /\ registry[t].status # "ASSIGNED") =>
                  /\ registry[t].status = "PUBLISHED"
                  /\ registry[t].bids # <<>>
                  /\ registry'[t].bids = registry[t].bids]_vars
    /\ [][\A t \in SeqNums :
              registry[t].status \in {"ASSIGNED", "COMPLETED"} =>
                  /\ registry'[t].winner = registry[t].winner
                  /\ registry'[t].winning_price = registry[t].winning_price]_vars
    /\ [](\A t \in SeqNums :
              /\ registry[t].status \in {"ASSIGNED", "COMPLETED"} =>
                     WinnerAmongBids(registry[t])
              /\ registry[t].status \in {"NONE", "PUBLISHED", "CANCELLED"} =>
                     registry[t].winner = NoWinner /\ registry[t].winning_price = 0
              /\ (registry[t].status = "PUBLISHED" /\ registry[t].bids = <<>>) =>
                     select_winner(registry[t], 1) = Rejected("NoBids", registry[t]))

\* C28 witness: a task with two bids of different prices is assigned to the
\* bidder of the second.
C28_Witness ==
    \E t \in SeqNums :
        /\ registry[t].status = "ASSIGNED"
        /\ Len(registry[t].bids) = 2
        /\ registry[t].winner = registry[t].bids[2].bidder
        /\ registry[t].winning_price # registry[t].bids[1].price

\* C29: escrow is conserved. A completed task has paid the winning price to
\* the winner and the rest of max_budget back to the creator, a cancelled
\* task has paid max_budget back to the creator, and a task that is neither
\* holds its whole max_budget in escrow.
C29_EscrowConserved ==
    \A t \in SeqNums :
        LET task == registry[t]
        IN /\ task.escrow + task.paid + task.refunded = task.max_budget
           /\ task.status = "COMPLETED" =>
                  /\ task.paid = task.winning_price
                  /\ task.paid + task.refunded = task.max_budget
           /\ task.status = "CANCELLED" =>
                  task.refunded = task.max_budget /\ task.paid = 0
           /\ task.status \in {"PUBLISHED", "ASSIGNED"} =>
                  task.escrow = task.max_budget /\ task.paid = 0 /\ task.refunded = 0

\* C29 witness: one task is settled with part of the budget refunded, and
\* another is cancelled.
C29_Witness ==
    \E t, u \in SeqNums :
        /\ registry[t].status = "COMPLETED"
        /\ registry[t].paid > 0
        /\ registry[t].refunded > 0
        /\ registry[u].status = "CANCELLED"
        /\ registry[u].max_budget > 0

\* C30: complete_task is applied exactly when the task is ASSIGNED and the
\* caller is its recorded winner, and then sets COMPLETED and completed_at;
\* any other call fails with NotAssigned or NotWinner and leaves the task
\* and its escrow as they are.
C30_CompleteOnlyByWinner ==
    /\ [][\A t \in SeqNums :
              (registry'[t].status = "COMPLETED" /\ registry[t].status # "COMPLETED") =>
                  /\ registry[t].status = "ASSIGNED"
                  /\ registry'[t].completed_at = Timestamp
                  /\ registry'[t].winner = registry[t].winner]_vars
    /\ [](\A t \in SeqNums, caller \in Callers :
              LET task == registry[t]
                  r == complete_task(task, caller)
              IN /\ r.result = "ok" <=> (task.status = "ASSIGNED" /\ caller = task.winner)
                 /\ r.result = "ok" =>
                        r.task.status = "COMPLETED" /\ r.task.completed_at = Timestamp
                 /\ r.result # "ok" => r.task = task
                 /\ (task.status \in {"PUBLISHED", "COMPLETED", "CANCELLED"}) =>
                        r.result = "NotAssigned"
                 /\ (task.status = "ASSIGNED" /\ caller # task.winner) =>
                        r.result = "NotWinner"
                 /\ task.status # "COMPLETED" => task.completed_at = 0)

\* C30 witness: a task assigned to the other provider is completed, after
\* which the service agent's own complete_task is refused.
C30_Witness ==
    \E t \in SeqNums :
        /\ registry[t].status = "COMPLETED"
        /\ registry[t].winner = Rival
        /\ HasBid(registry[t], Agent)
        /\ registry[t].completed_at = Timestamp

\* A task record that is the outcome of whole transactions: its winner,
\* timestamps and escrow balances are those its status goes with.
WholeTask(task) ==
    CASE task.status = "NONE" -> task = NoTask
      [] task.status = "PUBLISHED" ->
             /\ task.winner = NoWinner /\ task.winning_price = 0 /\ task.completed_at = 0
             /\ task.max_budget > 0 /\ task.escrow = task.max_budget
             /\ task.paid = 0 /\ task.refunded = 0
      [] task.status = "ASSIGNED" ->
             /\ WinnerAmongBids(task) /\ task.completed_at = 0
             /\ task.escrow = task.max_budget /\ task.paid = 0 /\ task.refunded = 0
      [] task.status = "COMPLETED" ->
             /\ WinnerAmongBids(task) /\ task.completed_at = Timestamp
             /\ task.escrow = 0 /\ task.paid = task.winning_price
             /\ task.refunded = task.max_budget - task.winning_price
      [] OTHER ->
             /\ task.winner = NoWinner /\ task.winning_price = 0 /\ task.completed_at = 0
             /\ task.escrow = 0 /\ task.paid = 0 /\ task.refunded = task.max_budget

\* The outcome r of a transaction on `task` is all or nothing.
AllOrNothing(task, r) ==
    IF r.result = "ok" THEN r.task # task /\ WholeTask(r.task) ELSE r.task = task

\* C31: every registry operation is atomic. In every state the registry
\* reaches, each task is the outcome of whole transactions, the feed holds
\* the event of exactly the tasks published, and every transaction a client
\* can submit is either rejected and leaves the task as it is, or applied
\* with status, bids, winner and escrow changed together.
C31_Atomic ==
    /\ PublishedSeqs = {t \in SeqNums : registry[t].status # "NONE"}
    /\ \A t \in SeqNums :
        LET task == registry[t]
        IN /\ WholeTask(task)
           /\ \A b \in Budgets \cup {0}, d \in BOOLEAN :
                  AllOrNothing(task, publish_task(task, Creator, b, d))
           /\ \A bidder \in {Agent, Rival} : \A price \in BidPrices(bidder) :
                  AllOrNothing(task, place_bid(task, bidder, price, ReputationScore))
           /\ \A i \in 1..Max0({1, Len(task.bids)}) :
                  AllOrNothing(task, select_winner(task, i))
           /\ \A caller \in Callers :
                  /\ AllOrNothing(task, complete_task(task, caller))
                  /\ AllOrNothing(task, cancel_task(task, caller))

\* C31 witness: the registry holds an assigned task, on which place_bid,
\* select_winner and cancel_task are rejected, besides a settled one.
C31_Witness ==
    \E t, u \in SeqNums :
        /\ registry[t].status = "ASSIGNED"
        /\ registry[u].status = "COMPLETED"
        /\ registry[u].refunded > 0

\* C32: with the feed reachable and every submission confirmed, every event
\* of the backlog gets its bid and is checkpointed for good, in memory and
\* in the file, none being skipped, although the backlog is longer than the
\* query's limit and comes in over successive polls.
C32_BacklogDrained ==
    <>[](\A n \in 1..MaxBacklog :
             /\ HasBid(registry[n], Agent)
             /\ last_seq_num >= n
             /\ Persisted >= n)

\* C32 witness: the second poll has returned what the first one's limit
\* left, and the last event of the backlog is checkpointed.
C32_Witness ==
    /\ MaxBacklog > QueryLimit
    /\ cycleStart = QueryLimit
    /\ Len(events) = MaxBacklog - QueryLimit
    /\ last_seq_num = MaxBacklog
    /\ file = Valid(MaxBacklog)

\* C33: for every task-published event with max_budget >= 1 and a bid ratio
\* in (0, 1], the price the agent submits satisfies 0 < price <= max_budget,
\* so the ledger never rejects the agent's bid as InvalidPrice.
C33_PriceValid ==
    /\ pc = "submitted" =>
           LET e == events[idx]
           IN (e.max_budget >= 1) =>
                  /\ 0 < bid_price(e.max_budget)
                  /\ bid_price(e.max_budget) <= e.max_budget
    /\ txn # "InvalidPrice"

\* The event numbered n is behind the cursor of the running process: the
\* cursor in memory has reached it, or process_task_event is in the
\* save_state that precedes its return of True for an event at or above n.
BehindCursor(n) ==
    \/ last_seq_num >= n
    \/ saveRet = "after_process" /\ saveArg >= n

\* C34: within one uninterrupted run, against a feed that returns only events
\* above since_sequence, an event whose bid was confirmed is never submitted
\* again, also when the checkpoint write for that event failed. In steps:
\* place_bid returning True for event n puts n behind the cursor, an event
\* behind the cursor stays there for as long as the process is not killed or
\* started again, and no submission is started for an event behind the
\* cursor.
C34_NoResubmission ==
    [][\A n \in SeqNums :
          /\ ( /\ pc = "executed"
               /\ txn = "confirmed"
               /\ pc' = "save_open"
               /\ lastOutcome' = "confirmed"
               /\ events[idx].sequence_number = n ) => BehindCursor(n)'
          /\ (BehindCursor(n) /\ pc' \notin {"killed", "start"}) => BehindCursor(n)'
          /\ BehindCursor(n) =>
                 ~(pc = "for" /\ pc' = "submitted" /\ events[idx].sequence_number = n)
      ]_vars

\* The checkpoint write for event 1 failed, the file still says 0, and the
\* same process has polled from 1 and has submitted the bid for event 2.
C34_Witness ==
    /\ crashes = 0
    /\ ioError
    /\ Persisted = 0
    /\ HasBid(registry[1], Agent)
    /\ cycleStart = 1
    /\ pc = "submitted"
    /\ events[idx].sequence_number = 2

\* The events of the feed whose payload process_task_event cannot read.
Malformed == {e \in feed : parse_error(e) # "none"}

\* C35: an event with a malformed payload is handled like a failed
\* submission. The step the loop takes at such an event submits nothing,
\* leaves the cursor, the file and the ledger as they are and puts the live
\* process into the wait after a batch; no bid is ever submitted for the event
\* or for an event behind it, and the cursor never reaches it; the wait ends,
\* the loop queries again, and the batch of that query starts with the same
\* event.
C35_MalformedIsFailure ==
    /\ [][( /\ pc = "for"
            /\ idx \in 1..Len(events)
            /\ events[idx] \in Malformed
            /\ ~shutdown_event
            /\ pc' # pc ) =>
              /\ pc' = "rest"
              /\ Alive'
              /\ txn' = "none"
              /\ submitted' = submitted
              /\ registry' = registry
              /\ last_seq_num' = last_seq_num
              /\ file' = file
              /\ retry' = events[idx].sequence_number]_vars
    /\ [](\A e \in Malformed :
              /\ e.sequence_number \notin submitted
              /\ ~HasBid(registry[e.task_id], Agent)
              /\ last_seq_num < e.sequence_number
              /\ Persisted < e.sequence_number
              /\ \A n \in SeqNums : n > e.sequence_number => n \notin submitted)
    /\ [](pc = "rest" => ENABLED WaitTimesOut)
    /\ []((pc = "loop" /\ ~shutdown_event) => ENABLED Poll)
    /\ [][( /\ pc = "loop"
            /\ pc' # pc
            /\ ~shutdown_event
            /\ \E e \in Malformed : e.sequence_number = retry ) =>
              /\ pc' = "for"
              /\ idx' = 1
              /\ events'[1].sequence_number = retry
              /\ events'[1] \in Malformed]_vars

\* The loop is at a malformed event for the second time: its first attempt
\* ended in an exception, and another event waits behind it in the batch.
C35_Witness ==
    /\ pc = "for"
    /\ idx = 1
    /\ Len(events) = 2
    /\ events[1] \in Malformed
    /\ retry = events[1].sequence_number
    /\ last_seq_num = 0
    /\ ~shutdown_event

\* A task id of whitespace only.
Blank(task_id) == \A i \in 1..Len(task_id) : task_id[i] \in Whitespace

\* The arguments the started script was given are not valid.
InvalidArguments ==
    \/ /\ script.name = "publish_task"
       /\ \/ script.args.max_budget <= 0
          \/ script.args.deadline_seconds <= 0
          \/ Blank(script.args.task_id)
    \/ /\ script.name = "place_bid"
       /\ \/ script.args.bid_price <= 0
          \/ script.args.reputation_score \notin 0..100
          \/ Blank(script.args.task_id)

\* C36: publish_task.py started with max_budget <= 0, deadline_seconds <= 0
\* or a blank task id, and place_bid.py started with bid_price <= 0, a
\* reputation score outside 0..100 or a blank task id, make no call of the
\* ledger client: main() returns after printing the error, before it calls
\* publish_task / place_bid.
C36_NoLedgerCallWhenInvalid ==
    InvalidArguments =>
        /\ script.ledger_calls = 0
        /\ script.pc \in {"main", "validate", "returned", "raised"}
        /\ script.pc = "returned" =>
               script.printed \in {"Error: Maximum budget must be greater than 0",
                                   "Error: Deadline must be greater than 0",
                                   "Error: Bid price must be greater than 0",
                                   "Error: Reputation score must be between 0-100",
                                   "Error: Task ID cannot be empty"}

\* place_bid.py has returned on a task id of two spaces, its other arguments
\* being valid.
C36_Witness ==
    /\ script.name = "place_bid"
    /\ script.pc = "returned"
    /\ script.args.task_id = <<" ", " ">>
    /\ script.args.bid_price > 0
    /\ script.args.reputation_score = 100
    /\ script.ledger_calls = 0

\* The steps before the i-th one all returned True.
EarlierSucceeded(i) == \A j \in 1..(i - 1) : script.outcomes[Steps[j]] = "True"

\* C37: full_deployment runs compile, test, deploy, initialize and verify in
\* that order, starts a step only when every earlier step returned True, and
\* returns True only when all five did; the platform is never initialized
\* after a failed compile, test or deploy.
C37_StepsInOrder ==
    /\ script.started = SubSeq(Steps, 1, Len(script.started))
    /\ \A i \in 1..Len(script.started) : EarlierSucceeded(i)
    /\ script.result = "True" =>
           /\ script.started = Steps
           /\ EarlierSucceeded(Len(Steps) + 1)
    /\ (\E i \in 1..3 : script.outcomes[Steps[i]] # "True") =>
           \A k \in 1..Len(script.started) : script.started[k] # "initialize_platform"

\* full_deployment has returned False after a deployment that failed: it had
\* compiled, tested and deployed, and nothing more.
C37_Witness ==
    /\ script.pc = "returned"
    /\ script.result = "False"
    /\ script.outcomes["deploy_contract"] = "False"
    /\ script.started = SubSeq(Steps, 1, 3)

\* C38: deploy_contract returns True only when the module listing succeeded
\* and the bidding_system module is among the listed modules, whatever the
\* exit status of the publish command; and a failed publish with an error and
\* no warning in its error output returns False without the listing.
C38_SuccessOnlyWhenListed ==
    /\ script.result = "True" =>
           /\ script.listed
           /\ script.verify_returncode = 0
           /\ script.verify_stdout.kind = "json_object"
           /\ <<"bidding_system">> \in script.verify_stdout.modules
    /\ ( /\ script.pc = "returned"
         /\ script.returncode # 0
         /\ in_lower("error", script.stderr)
         /\ ~in_lower("warning", script.stderr) ) =>
           (script.result = "False" /\ ~script.listed)

\* Ledger clients a call of the monitor's place_bid has created by the time it
\* returns: get_client_and_account constructs the RestClient before it reads
\* the profile, and it is the first statement of the try block.
clients_opened(outcome) == 1

\* Of these, the clients place_bid has closed when it returns: client.close()
\* is the statement before return True.
clients_closed(outcome) == IF outcome = "confirmed" THEN 1 ELSE 0

\* C39: every ledger client the monitor's place_bid opens is closed before it
\* returns, on the success path and on every failure path.
C39_ClientsClosed ==
    lastOutcome # "none" =>
        clients_closed(lastOutcome) = clients_opened(lastOutcome)

====
